---- MODULE Spec2Model ----
(***************************************************************************)
(* WiPS: WiFi positioning.  Model of the fix tracker and change detector   *)
(* (GEO in src/src/geo.cpp with the WIGGLE provider of                     *)
(* src/src/geo-wiggle.cpp) and of the earlier MLS class (src/mls.cpp),     *)
(* which keeps the same current/previous fixes without a change detector.  *)
(*                                                                         *)
(* Units.  Coordinates are floats in the code; here they are integers in   *)
(* micro-degrees.  Uptime is in milliseconds as in the code.  distance is  *)
(* kept in centimetres, speed in millimetres per second, so that the       *)
(* float divisions of getMovement are computed in fixed point.             *)
(* The objects have static storage and empty constructors, so every field  *)
(* starts zeroed.                                                          *)
(***************************************************************************)
EXTENDS Integers, Sequences, FiniteSets, TLC

VARIABLES
    variant,       \* which class the build uses: "GEO" (geo.cpp) or "MLS" (mls.cpp)
    clock,         \* the last value millis() returned
    nets,          \* nets[0 .. netCount-1], the last scan
    netCount,
    prevNets,      \* prevNets[0 .. prevNetCount-1], the stored baseline (GEO)
    prevNetCount,
    current,       \* geo_t
    previous,      \* geo_t
    locator,       \* char locator[7], as the character codes before the NUL
    distance,      \* cm
    speed,         \* mm/s
    knots,
    bearing,
    last,          \* the last call: its name, what it returned, whether it went to
                   \* the provider, whether current was valid when it began, and
                   \* the accuracy and the coordinates it took from the provider
    aprsTlmSeq,    \* APRS: telemetry sequence number
    error,         \* APRS: the session error flag
    aprsClient,    \* APRS: the transport: its link and the bytes received, unread
    pc,            \* where the single control flow is: "idle" between calls, or
                   \* inside a loop that reads from a transport
    call,          \* the last APRS call: its name, what it returned and what it did
    geoClient,     \* structured POST: the transport of the call in progress
    parsed,        \* structured POST: the locals acc, err, lat, lng of the call
    aprsCallSign,  \* APRS: char aprsCallSign[10], the characters before the NUL
    aprsPassCode,  \* APRS: char aprsPassCode[10], likewise
    nmea,          \* NMEA encoder: the fields it keeps between calls
    sentence,      \* the last NMEA or NTP call: its name, arguments and result
    welcome,       \* NMEA: char welcome[80], the characters before the NUL
    aprsLocation,  \* APRS: char aprsLocation[20], as coordinates() filled it
    aprsTable,     \* APRS: the symbol table character
    aprsSymbol,    \* APRS: the symbol code character
    aprsObjectNm,  \* APRS: char aprsObjectNm[10], the characters before the NUL
    located,       \* the arguments of the last setLocation, << >> before the first
    uptime,        \* NTP: time since start-up, in units of UnitMs, never wrapping
    ntp,           \* NTP: valid, delta and nextSync
    ntpCall,       \* the last getSeconds call and the last sync attempt before it
    TCPClient,     \* TCPServer: WiFiClient TCPClient[MAX_CLIENTS]
    clients,       \* TCPServer: int clients
    pending,       \* TCPServer: connections waiting to be accepted
    checked        \* the last TCPServer::check call

geoVars == << variant, clock, nets, netCount, prevNets, prevNetCount, current,
              previous, locator, distance, speed, knots, bearing, last >>

aprsVars == << aprsTlmSeq, error, aprsClient, call >>

postVars == << geoClient, parsed >>

locVars == << aprsLocation, aprsTable, aprsSymbol, located >>

idVars == << aprsCallSign, aprsPassCode, aprsObjectNm, locVars >>

nmeaVars == << nmea, sentence, welcome >>

ntpVars == << uptime, ntp, ntpCall >>

srvVars == << TCPClient, clients, pending, checked >>

vars == << geoVars, aprsVars, postVars, pc, idVars, nmeaVars, ntpVars, srvVars >>

(***************************************************************************)
(* Bounds of the model                                                     *)
(***************************************************************************)
\* uptime is read at multiples of TickMs, up to MaxTicks of them
MaxTicks == 5
\* entries in one raw scan
MaxScan == 2

TickMs == 20 * 60 * 1000
Times == { k * TickMs : k \in 0 .. MaxTicks }

(***************************************************************************)
(* Program constants                                                       *)
(***************************************************************************)
MAXNETS == 32
\* config.h is not part of the sources; the ceiling is "a few thousand meters"
GEO_MAXACC == 3000
\* "over 1 hour", 3600000UL
StaleMs == 3600000
\* abs(rssi difference) > 10
RssiThreshold == 10

ApBssid == "ap"
BSSIDs == {"ap", "b1"}
RSSIs == {-70, -65, -55}

\* (int8_t) of a scan's RSSI
ToInt8(x) == ((x + 128) % 256) - 128

Abs(x) == IF x < 0 THEN -x ELSE x

Min(a, b) == IF a < b THEN a ELSE b

(***************************************************************************)
(* Coordinates the provider may answer with, in micro-degrees:             *)
(* (45.0,10.0), (45.001,10.001) and the out-of-range (91.0,10.0);          *)
(* (0,0) is what a response without coordinates leaves.                    *)
(***************************************************************************)
Coords == { <<45000000, 10000000>>, <<45001000, 10001000>>,
            <<91000000, 10000000>> }

geo_t(lat, lng, v, t) ==
    [latitude |-> lat, longitude |-> lng, valid |-> v, uptm |-> t]

(***************************************************************************)
(* wifiScan: drop the associated AP, keep at most MAXNETS, optionally sort *)
(* by RSSI, strongest first (insertion sort, stable).                      *)
(***************************************************************************)
RECURSIVE StoreScan(_, _)
StoreScan(raw, stored) ==
    IF raw = << >> \/ Len(stored) >= MAXNETS THEN stored
    ELSE IF Head(raw).bssid # ApBssid
         THEN StoreScan(Tail(raw),
                        Append(stored, [bssid |-> Head(raw).bssid,
                                        rssi  |-> ToInt8(Head(raw).rssi)]))
         ELSE StoreScan(Tail(raw), stored)

RECURSIVE InsertByRssi(_, _)
InsertByRssi(sorted, e) ==
    IF sorted = << >> THEN << e >>
    ELSE IF sorted[Len(sorted)].rssi < e.rssi
         THEN Append(InsertByRssi(SubSeq(sorted, 1, Len(sorted) - 1), e),
                     sorted[Len(sorted)])
         ELSE Append(sorted, e)

RECURSIVE SortByRssi(_)
SortByRssi(s) ==
    IF s = << >> THEN << >>
    ELSE InsertByRssi(SortByRssi(SubSeq(s, 1, Len(s) - 1)), s[Len(s)])

\* what a scan may list: the associated AP, and the others at each strength
ScanEntries ==
    { [bssid |-> ApBssid, rssi |-> -55] }
    \cup [bssid : BSSIDs \ {ApBssid}, rssi : RSSIs]

\* raw scans: up to MaxScan entries with distinct BSSIDs
RawScans ==
    UNION { { s \in [1 .. n -> ScanEntries] :
                \A i, j \in 1 .. n : i # j => s[i].bssid # s[j].bssid }
            : n \in 0 .. MaxScan }

NoCall == [op |-> "none", ret |-> 0, queried |-> FALSE, had |-> FALSE,
           acc |-> -1, lat |-> 0, lng |-> 0]

wifiScan(raw, sort) ==
    LET stored == StoreScan(raw, << >>)
        kept   == IF sort THEN SortByRssi(stored) ELSE stored
    IN  /\ nets' = kept
        /\ netCount' = Len(kept)
        /\ last' = [NoCall EXCEPT !.op = "wifiScan", !.ret = Len(kept)]
        /\ UNCHANGED << variant, clock, prevNets, prevNetCount, current, previous,
                        locator, distance, speed, knots, bearing >>
        /\ UNCHANGED << aprsVars, postVars, pc, idVars, nmeaVars, ntpVars, srvVars >>

(***************************************************************************)
(* networksChanged                                                         *)
(***************************************************************************)
\* index of the first baseline entry with this BSSID, 0 when there is none
RECURSIVE FirstMatch(_, _, _)
FirstMatch(bssid, j, count) ==
    IF j > count THEN 0
    ELSE IF prevNets[j].bssid = bssid THEN j
    ELSE FirstMatch(bssid, j + 1, count)

RECURSIVE CompareFrom(_, _, _)
CompareFrom(newNets, i, newCount) ==
    IF i > newCount THEN FALSE
    ELSE LET j == FirstMatch(newNets[i].bssid, 1, prevNetCount)
         IN  IF j = 0 THEN TRUE
             ELSE IF Abs(newNets[i].rssi - prevNets[j].rssi) > RssiThreshold THEN TRUE
             ELSE CompareFrom(newNets, i + 1, newCount)

networksChanged_CountOnly(newNets, newCount) == newCount # prevNetCount

networksChanged(newNets, newCount) ==
    IF newCount # prevNetCount THEN TRUE
    ELSE CompareFrom(newNets, 1, newCount)

(***************************************************************************)
(* Navigation math.  getDistance and getBearing are float trigonometry;    *)
(* they are tabulated over the coordinates of the model, each value        *)
(* computed with the source's formula in single precision.  getDistance    *)
(* is in centimetres.  getBearing is tabulated over BearingPoints, which    *)
(* has the coordinates of the model and five more points.                  *)
(***************************************************************************)
getDistance(lat1, long1, lat2, long2) ==
    CASE <<lat1, long1, lat2, long2>> = <<0, 0, 0, 0>> -> 0
      [] <<lat1, long1, lat2, long2>> = <<0, 0, 45000000, 10000000>> -> 510127750
      [] <<lat1, long1, lat2, long2>> = <<0, 0, 45001000, 10001000>> -> 510140450
      [] <<lat1, long1, lat2, long2>> = <<0, 0, 91000000, 10000000>> -> 1011989900
      [] <<lat1, long1, lat2, long2>> = <<45000000, 10000000, 0, 0>> -> 510127750
      [] <<lat1, long1, lat2, long2>> = <<45000000, 10000000, 45000000, 10000000>> -> 0
      [] <<lat1, long1, lat2, long2>> = <<45000000, 10000000, 45001000, 10001000>> -> 13614
      [] <<lat1, long1, lat2, long2>> = <<45000000, 10000000, 91000000, 10000000>> -> 511640750
      [] <<lat1, long1, lat2, long2>> = <<45001000, 10001000, 0, 0>> -> 510140450
      [] <<lat1, long1, lat2, long2>> = <<45001000, 10001000, 45000000, 10000000>> -> 13614
      [] <<lat1, long1, lat2, long2>> = <<45001000, 10001000, 45001000, 10001000>> -> 0
      [] <<lat1, long1, lat2, long2>> = <<45001000, 10001000, 91000000, 10000000>> -> 511629650
      [] <<lat1, long1, lat2, long2>> = <<91000000, 10000000, 0, 0>> -> 1011989900
      [] <<lat1, long1, lat2, long2>> = <<91000000, 10000000, 45000000, 10000000>> -> 511640750
      [] <<lat1, long1, lat2, long2>> = <<91000000, 10000000, 45001000, 10001000>> -> 511629650
      [] <<lat1, long1, lat2, long2>> = <<91000000, 10000000, 91000000, 10000000>> -> 0

getBearing(lat1, long1, lat2, long2) ==
    CASE <<lat1, long1, lat2, long2>> = <<0, 0, 0, 0>> -> 0
      [] <<lat1, long1, lat2, long2>> = <<0, 0, 45000000, 10000000>> -> 9
      [] <<lat1, long1, lat2, long2>> = <<0, 0, 45001000, 10001000>> -> 9
      [] <<lat1, long1, lat2, long2>> = <<0, 0, 91000000, 10000000>> -> 359
      [] <<lat1, long1, lat2, long2>> = <<0, 0, 45000000, 10001000>> -> 9
      [] <<lat1, long1, lat2, long2>> = <<0, 0, 45001000, 10000000>> -> 9
      [] <<lat1, long1, lat2, long2>> = <<0, 0, 45000000, -10000000>> -> 350
      [] <<lat1, long1, lat2, long2>> = <<0, 0, -33900000, 151200000>> -> 144
      [] <<lat1, long1, lat2, long2>> = <<45000000, 10000000, 0, 0>> -> 194
      [] <<lat1, long1, lat2, long2>> = <<45000000, 10000000, 45000000, 10000000>> -> 180
      [] <<lat1, long1, lat2, long2>> = <<45000000, 10000000, 45001000, 10001000>> -> 35
      [] <<lat1, long1, lat2, long2>> = <<45000000, 10000000, 91000000, 10000000>> -> 0
      [] <<lat1, long1, lat2, long2>> = <<45000000, 10000000, 45000000, 10001000>> -> 90
      [] <<lat1, long1, lat2, long2>> = <<45000000, 10000000, 45001000, 10000000>> -> 0
      [] <<lat1, long1, lat2, long2>> = <<45000000, 10000000, 45000000, -10000000>> -> 277
      [] <<lat1, long1, lat2, long2>> = <<45000000, 10000000, -33900000, 151200000>> -> 83
      [] <<lat1, long1, lat2, long2>> = <<45001000, 10001000, 0, 0>> -> 194
      [] <<lat1, long1, lat2, long2>> = <<45001000, 10001000, 45000000, 10000000>> -> 215
      [] <<lat1, long1, lat2, long2>> = <<45001000, 10001000, 45001000, 10001000>> -> 180
      [] <<lat1, long1, lat2, long2>> = <<45001000, 10001000, 91000000, 10000000>> -> 0
      [] <<lat1, long1, lat2, long2>> = <<45001000, 10001000, 45000000, 10001000>> -> 180
      [] <<lat1, long1, lat2, long2>> = <<45001000, 10001000, 45001000, 10000000>> -> 269
      [] <<lat1, long1, lat2, long2>> = <<45001000, 10001000, 45000000, -10000000>> -> 277
      [] <<lat1, long1, lat2, long2>> = <<45001000, 10001000, -33900000, 151200000>> -> 83
      [] <<lat1, long1, lat2, long2>> = <<91000000, 10000000, 0, 0>> -> 190
      [] <<lat1, long1, lat2, long2>> = <<91000000, 10000000, 45000000, 10000000>> -> 180
      [] <<lat1, long1, lat2, long2>> = <<91000000, 10000000, 45001000, 10001000>> -> 179
      [] <<lat1, long1, lat2, long2>> = <<91000000, 10000000, 91000000, 10000000>> -> 0
      [] <<lat1, long1, lat2, long2>> = <<91000000, 10000000, 45000000, 10001000>> -> 179
      [] <<lat1, long1, lat2, long2>> = <<91000000, 10000000, 45001000, 10000000>> -> 180
      [] <<lat1, long1, lat2, long2>> = <<91000000, 10000000, 45000000, -10000000>> -> 199
      [] <<lat1, long1, lat2, long2>> = <<91000000, 10000000, -33900000, 151200000>> -> 38
      [] <<lat1, long1, lat2, long2>> = <<45000000, 10001000, 0, 0>> -> 194
      [] <<lat1, long1, lat2, long2>> = <<45000000, 10001000, 45000000, 10000000>> -> 269
      [] <<lat1, long1, lat2, long2>> = <<45000000, 10001000, 45001000, 10001000>> -> 0
      [] <<lat1, long1, lat2, long2>> = <<45000000, 10001000, 91000000, 10000000>> -> 0
      [] <<lat1, long1, lat2, long2>> = <<45000000, 10001000, 45000000, 10001000>> -> 180
      [] <<lat1, long1, lat2, long2>> = <<45000000, 10001000, 45001000, 10000000>> -> 324
      [] <<lat1, long1, lat2, long2>> = <<45000000, 10001000, 45000000, -10000000>> -> 277
      [] <<lat1, long1, lat2, long2>> = <<45000000, 10001000, -33900000, 151200000>> -> 83
      [] <<lat1, long1, lat2, long2>> = <<45001000, 10000000, 0, 0>> -> 194
      [] <<lat1, long1, lat2, long2>> = <<45001000, 10000000, 45000000, 10000000>> -> 180
      [] <<lat1, long1, lat2, long2>> = <<45001000, 10000000, 45001000, 10001000>> -> 90
      [] <<lat1, long1, lat2, long2>> = <<45001000, 10000000, 91000000, 10000000>> -> 0
      [] <<lat1, long1, lat2, long2>> = <<45001000, 10000000, 45000000, 10001000>> -> 144
      [] <<lat1, long1, lat2, long2>> = <<45001000, 10000000, 45001000, 10000000>> -> 180
      [] <<lat1, long1, lat2, long2>> = <<45001000, 10000000, 45000000, -10000000>> -> 277
      [] <<lat1, long1, lat2, long2>> = <<45001000, 10000000, -33900000, 151200000>> -> 83
      [] <<lat1, long1, lat2, long2>> = <<45000000, -10000000, 0, 0>> -> 165
      [] <<lat1, long1, lat2, long2>> = <<45000000, -10000000, 45000000, 10000000>> -> 82
      [] <<lat1, long1, lat2, long2>> = <<45000000, -10000000, 45001000, 10001000>> -> 82
      [] <<lat1, long1, lat2, long2>> = <<45000000, -10000000, 91000000, 10000000>> -> 359
      [] <<lat1, long1, lat2, long2>> = <<45000000, -10000000, 45000000, 10001000>> -> 82
      [] <<lat1, long1, lat2, long2>> = <<45000000, -10000000, 45001000, 10000000>> -> 82
      [] <<lat1, long1, lat2, long2>> = <<45000000, -10000000, 45000000, -10000000>> -> 180
      [] <<lat1, long1, lat2, long2>> = <<45000000, -10000000, -33900000, 151200000>> -> 58
      [] <<lat1, long1, lat2, long2>> = <<-33900000, 151200000, 0, 0>> -> 224
      [] <<lat1, long1, lat2, long2>> = <<-33900000, 151200000, 45000000, 10000000>> -> 302
      [] <<lat1, long1, lat2, long2>> = <<-33900000, 151200000, 45001000, 10001000>> -> 302
      [] <<lat1, long1, lat2, long2>> = <<-33900000, 151200000, 91000000, 10000000>> -> 0
      [] <<lat1, long1, lat2, long2>> = <<-33900000, 151200000, 45000000, 10001000>> -> 302
      [] <<lat1, long1, lat2, long2>> = <<-33900000, 151200000, 45001000, 10000000>> -> 302
      [] <<lat1, long1, lat2, long2>> = <<-33900000, 151200000, 45000000, -10000000>> -> 313
      [] <<lat1, long1, lat2, long2>> = <<-33900000, 151200000, -33900000, 151200000>> -> 180

\* the six characters of the Maidenhead locator, as character codes
getLocator(lat, lng) ==
    LET remo1 == lng + 180000000
        o1    == remo1 \div 20000000
        remo2 == remo1 - o1 * 20000000
        o2    == remo2 \div 2000000
        remo3 == remo2 - 2000000 * o2
        o3    == (12 * remo3) \div 1000000
        rema1 == lat + 90000000
        a1    == rema1 \div 10000000
        rema2 == rema1 - a1 * 10000000
        a2    == rema2 \div 1000000
        rema3 == rema2 - a2 * 1000000
        a3    == (24 * rema3) \div 1000000
    IN  << o1 + 65, a1 + 65, o2 + 48, a2 + 48, o3 + 97, a3 + 97 >>

\* 1000.0 * distance / (current.uptm - previous.uptm), in mm/s from cm and ms
SpeedOf(distCm, dtMs) ==
    LET dtS == dtMs \div 1000
    IN  (distCm \div dtS) * 10 + ((distCm % dtS) * 10) \div dtS

\* lround(speed * 1.94384449), digit by digit to stay within 32 bits
KnotsOf(speedMm) ==
    LET milli == speedMm + (speedMm * 9) \div 10 + (speedMm * 4) \div 100
                 + (speedMm * 3) \div 1000 + (speedMm * 8) \div 10000
                 + (speedMm * 4) \div 100000 + (speedMm * 4) \div 1000000
                 + (speedMm * 4) \div 10000000 + (speedMm * 9) \div 100000000
    IN  (milli + 500) \div 1000

(***************************************************************************)
(* Provider responses                                                      *)
(***************************************************************************)
Accuracies == {0, GEO_MAXACC, GEO_MAXACC + 1}

\* api.wigle.net: the HTTP status and the fields of the JSON body.  A body
\* that reports failure or no results still carries coordinates and a range.
WiggleResponses ==
    { [http |-> FALSE, success |-> FALSE, totalResults |-> 0, hasPos |-> FALSE,
       lat |-> 0, lng |-> 0, hasRange |-> FALSE, range |-> 0] }
    \cup { [http |-> TRUE, success |-> s, totalResults |-> n, hasPos |-> TRUE,
            lat |-> 45000000, lng |-> 10000000, hasRange |-> TRUE, range |-> 0] :
           s \in BOOLEAN, n \in 0 .. 1 }
    \cup { [http |-> TRUE, success |-> TRUE, totalResults |-> 1, hasPos |-> TRUE,
            lat |-> c[1], lng |-> c[2], hasRange |-> TRUE, range |-> a] :
           c \in Coords, a \in Accuracies }
    \cup { [http |-> TRUE, success |-> TRUE, totalResults |-> 1, hasPos |-> FALSE,
            lat |-> 0, lng |-> 0, hasRange |-> TRUE, range |-> a] :
           a \in Accuracies }
    \cup { [http |-> TRUE, success |-> TRUE, totalResults |-> 1, hasPos |-> TRUE,
            lat |-> c[1], lng |-> c[2], hasRange |-> FALSE, range |-> 0] :
           c \in Coords }

\* the structured POST service: whether the connection opened, and the keys
\* "lat", "lng", "accuracy", "code" of the body
PostResponses ==
    { [connected |-> FALSE, hasPos |-> FALSE, lat |-> 0, lng |-> 0,
       hasAcc |-> FALSE, accuracy |-> 0, hasCode |-> FALSE, code |-> 0] }
    \cup { [connected |-> TRUE, hasPos |-> TRUE, lat |-> c[1], lng |-> c[2],
            hasAcc |-> TRUE, accuracy |-> a, hasCode |-> FALSE, code |-> 0] :
           c \in Coords, a \in Accuracies }
    \cup { [connected |-> TRUE, hasPos |-> FALSE, lat |-> 0, lng |-> 0,
            hasAcc |-> TRUE, accuracy |-> a, hasCode |-> FALSE, code |-> 0] :
           a \in Accuracies }
    \cup { [connected |-> TRUE, hasPos |-> FALSE, lat |-> 0, lng |-> 0,
            hasAcc |-> FALSE, accuracy |-> 0, hasCode |-> k # 0, code |-> k] :
           k \in {0, 400} }

\* acc >= 0 and acc <= GEO_MAXACC
Accepted(acc) == acc >= 0 /\ acc <= GEO_MAXACC

(***************************************************************************)
(* WIGGLE::geoLocation(loc, nets, netCount): the accuracy or the negated   *)
(* error, and *loc as the call leaves it.                                  *)
(***************************************************************************)
Stamp_Kept(loc, now) == loc.uptm

\* loc->uptm = now, with now the millis() read when the call began
Stamp(loc, now) == now

WIGGLE_geoLocation(loc, resp, now) ==
    LET success      == resp.http /\ resp.success
        foundResults == resp.http /\ resp.totalResults > 0
        lat == IF foundResults /\ resp.hasPos THEN resp.lat ELSE 0
        lng == IF foundResults /\ resp.hasPos THEN resp.lng ELSE 0
        acc == IF foundResults /\ resp.hasRange THEN resp.range ELSE -1
        ok  == success /\ foundResults /\ Accepted(acc)
        err == IF ~resp.http THEN 4
               ELSE IF ok THEN -1
               ELSE IF ~success THEN 1
               ELSE IF ~foundResults THEN 2
               ELSE 3
    IN  [acc |-> IF err > 0 THEN -err ELSE acc,
         loc |-> IF ok THEN geo_t(lat, lng, TRUE, Stamp(loc, now))
                       ELSE [loc EXCEPT !.valid = FALSE]]

Expire_Always(prev, now) == [prev EXCEPT !.valid = FALSE]

\* if (millis() - previous.uptm > 3600000UL) previous.valid = false
Expire(prev, now) ==
    IF now - prev.uptm > StaleMs THEN [prev EXCEPT !.valid = FALSE] ELSE prev

Shift_Never(cur, prev) == prev

Shift_Always(cur, prev) == cur

CachedLocator_Kept(loc, old) == old

\* getLocator(current.latitude, current.longitude) after current is stored
CachedLocator(loc, old) == getLocator(loc.latitude, loc.longitude)

\* if (current.valid) previous = current
Shift(cur, prev) == IF cur.valid THEN cur ELSE prev

SkippedBaseline_Saved(old, new) == new

\* the reuse path returns before the scan is saved for the next comparison
SkippedBaseline(old, new) == old

Reuse_Inverted == networksChanged(nets, netCount) /\ current.valid

Reuse_WhenUnchanged == ~networksChanged(nets, netCount)

\* if (!networksChanged(nets, netCount)) if (current.valid)
Reuse == ~networksChanged(nets, netCount) /\ current.valid

(***************************************************************************)
(* GEO::geoLocation                                                        *)
(***************************************************************************)
GEO_geoLocation(now, resp) ==
    /\ variant = "GEO"
    /\ clock' = now
    /\ IF Reuse
       THEN \* reuse the location, refresh its timestamp
            /\ current' = [current EXCEPT !.uptm = now]
            /\ locator' = getLocator(current.latitude, current.longitude)
            /\ last' = [op |-> "geoLocation", ret |-> 1, queried |-> FALSE, had |-> current.valid,
                        acc |-> -1, lat |-> 0, lng |-> 0]
            /\ prevNetCount' = SkippedBaseline(prevNetCount, netCount)
            /\ prevNets' = SkippedBaseline(prevNets, nets)
            /\ UNCHANGED previous
       ELSE LET temp0 == current
                r     == WIGGLE_geoLocation(temp0, resp, now)
                acc   == r.acc
                temp  == r.loc
                prev1 == Expire(previous, now)
            IN  /\ prevNetCount' = netCount
                /\ prevNets' = SubSeq(nets, 1, Min(netCount, MAXNETS))
                /\ IF Accepted(acc)
                   THEN /\ previous' = Shift(current, prev1)
                        /\ current' = geo_t(temp.latitude, temp.longitude, TRUE, temp.uptm)
                        /\ locator' = CachedLocator(temp, locator)
                        /\ last' = [op |-> "geoLocation", ret |-> acc, queried |-> TRUE, had |-> current.valid,
                                    acc |-> acc, lat |-> temp.latitude,
                                    lng |-> temp.longitude]
                   ELSE /\ previous' = prev1
                        /\ current' = [current EXCEPT !.valid = FALSE]
                        /\ locator' = locator
                        /\ last' = [op |-> "geoLocation", ret |-> acc, queried |-> TRUE, had |-> current.valid,
                                    acc |-> acc, lat |-> 0, lng |-> 0]
    /\ UNCHANGED << variant, nets, netCount, distance, speed, knots, bearing >>
    /\ UNCHANGED << aprsVars, postVars, pc, idVars, nmeaVars, ntpVars, srvVars >>

(***************************************************************************)
(* MLS::geoLocation                                                        *)
(***************************************************************************)
\* what the call does to the fixes, given what it read from the server
MLS_store(now, resp) ==
    /\ variant = "MLS"
    /\ clock' = now
    /\ LET lat == IF resp.hasPos THEN resp.lat ELSE 0
           lng == IF resp.hasPos THEN resp.lng ELSE 0
           acc == IF resp.hasAcc THEN resp.accuracy ELSE -1
           err == IF resp.hasCode THEN resp.code ELSE -1
           ret == IF resp.connected /\ err > 0 THEN -err
                  ELSE IF resp.connected THEN acc ELSE -1
           prev1 == Expire(previous, now)
       IN  IF ~resp.connected
           THEN /\ last' = [op |-> "geoLocation", ret |-> ret, queried |-> TRUE, had |-> current.valid,
                            acc |-> -1, lat |-> 0, lng |-> 0]
                /\ UNCHANGED << current, previous, locator >>
           ELSE IF Accepted(acc)
           THEN /\ previous' = Shift(current, prev1)
                /\ current' = geo_t(lat, lng, TRUE, now)
                /\ locator' = getLocator(lat, lng)
                /\ last' = [op |-> "geoLocation", ret |-> ret, queried |-> TRUE, had |-> current.valid,
                            acc |-> acc, lat |-> lat, lng |-> lng]
           ELSE /\ previous' = prev1
                /\ current' = [current EXCEPT !.valid = FALSE]
                /\ locator' = locator
                /\ last' = [op |-> "geoLocation", ret |-> ret, queried |-> TRUE, had |-> current.valid,
                            acc |-> acc, lat |-> 0, lng |-> 0]
    /\ UNCHANGED << variant, nets, netCount, prevNets, prevNetCount,
                    distance, speed, knots, bearing >>

\* the call as one step, with a server that answers and closes the connection
MLS_geoLocation(now, resp) ==
    /\ MLS_store(now, resp)
    /\ UNCHANGED << aprsVars, postVars, pc, idVars, nmeaVars, ntpVars, srvVars >>

(***************************************************************************)
(* getMovement                                                             *)
(***************************************************************************)
\* the outputs when both fixes are valid: int distance is whole metres in GEO
\* and a float in MLS
Moving(wholeMetres) ==
    LET d    == getDistance(previous.latitude, previous.longitude,
                            current.latitude, current.longitude)
        dist == IF wholeMetres THEN (d \div 100) * 100 ELSE d
        spd  == SpeedOf(dist, current.uptm - previous.uptm)
        kn   == KnotsOf(spd)
    IN  [distance |-> dist, speed |-> spd, knots |-> kn,
         bearing |-> IF kn > 0
                     THEN getBearing(previous.latitude, previous.longitude,
                                     current.latitude, current.longitude)
                     ELSE bearing]

\* GEO: distance = 0; speed = 0.0; knots = 0; bearing = -1
GEO_Stationary == [distance |-> 0, speed |-> 0, knots |-> 0, bearing |-> -1]

\* MLS: distance = 0; speed = 0; knots = 0
MLS_Stationary == [distance |-> 0, speed |-> 0, knots |-> 0, bearing |-> bearing]

SetMovement(m) ==
    /\ distance' = m.distance
    /\ speed' = m.speed
    /\ knots' = m.knots
    /\ bearing' = m.bearing
    /\ last' = [NoCall EXCEPT !.op = "getMovement", !.ret = m.distance \div 100]
    /\ UNCHANGED << variant, clock, nets, netCount, prevNets, prevNetCount,
                    current, previous, locator >>
    /\ UNCHANGED << aprsVars, postVars, pc, idVars, nmeaVars, ntpVars, srvVars >>

GEO_getMovement ==
    /\ variant = "GEO"
    /\ SetMovement(IF current.valid /\ previous.valid
                   THEN Moving(TRUE) ELSE GEO_Stationary)

MLS_getMovement ==
    /\ variant = "MLS"
    /\ SetMovement(IF current.valid /\ previous.valid
                   THEN Moving(FALSE) ELSE MLS_Stationary)

(***************************************************************************)
(* Text.  A C string is the sequence of its characters before the NUL,     *)
(* each a one-character string; "CR" and "LF" stand for the carriage       *)
(* return and the line feed, "GRAVE" for the grave accent.  NULL is the    *)
(* null pointer.                                                           *)
(***************************************************************************)
NULL == << "NULL" >>

\* the characters with codes 32 .. 126, in order
Printable ==
    << " ", "!", "\"", "#", "$", "%", "&", "'", "(", ")", "*", "+", ",", "-", ".", "/",
       "0", "1", "2", "3", "4", "5", "6", "7", "8", "9", ":", ";", "<", "=", ">", "?",
       "@", "A", "B", "C", "D", "E", "F", "G", "H", "I", "J", "K", "L", "M", "N", "O",
       "P", "Q", "R", "S", "T", "U", "V", "W", "X", "Y", "Z", "[", "\\", "]", "^", "_",
       "GRAVE", "a", "b", "c", "d", "e", "f", "g", "h", "i", "j", "k", "l", "m", "n", "o",
       "p", "q", "r", "s", "t", "u", "v", "w", "x", "y", "z", "{", "|", "}", "~" >>

\* the code of each character
Codes ==
    [c \in { Printable[i] : i \in 1 .. Len(Printable) } \cup { "CR", "LF" } |->
        IF c = "CR" THEN 13
        ELSE IF c = "LF" THEN 10
        ELSE 31 + CHOOSE i \in 1 .. Len(Printable) : Printable[i] = c]

\* the code of a character
Ord(c) == Codes[c]

\* the character of a code
Chr(n) == IF n = 13 THEN "CR" ELSE IF n = 10 THEN "LF" ELSE Printable[n - 31]

\* toupper
toupper(c) == IF Ord(c) \in 97 .. 122 THEN Chr(Ord(c) - 32) ELSE c

\* a ^ b on non-negative integers
RECURSIVE Xor(_, _)
Xor(a, b) ==
    IF a = 0 THEN b
    ELSE IF b = 0 THEN a
    ELSE 2 * Xor(a \div 2, b \div 2) + ((a + b) % 2)

\* the first n characters of s, or all of s: what strncpy and strncat copy
Take(s, n) == SubSeq(s, 1, Min(Len(s), n))

\* strncat(dst, src, n)
strncat(dst, src, n) == dst \o Take(src, n)

HexDigits == << "0", "1", "2", "3", "4", "5", "6", "7", "8", "9", "A", "B", "C", "D", "E", "F" >>

\* itoa(n, buf, radix) for n >= 0: the digits, without leading zeros
RECURSIVE itoa(_, _)
itoa(n, radix) ==
    IF n < radix THEN << HexDigits[n + 1] >>
    ELSE itoa(n \div radix, radix) \o << HexDigits[(n % radix) + 1] >>

RECURSIVE Fill(_, _)
Fill(c, n) == IF n <= 0 THEN << >> ELSE << c >> \o Fill(c, n - 1)

\* printf's %0<w>d: the sign, then zeros up to the width, then the digits
PadZero(n, w) ==
    IF n < 0 THEN << "-" >> \o Fill("0", w - 1 - Len(itoa(-n, 10))) \o itoa(-n, 10)
    ELSE Fill("0", w - Len(itoa(n, 10))) \o itoa(n, 10)

\* printf's %<w>d: spaces up to the width, then the sign and the digits
PadSpace(n, w) ==
    LET d == IF n < 0 THEN << "-" >> \o itoa(-n, 10) ELSE itoa(n, 10)
    IN  Fill(" ", w - Len(d)) \o d

\* printf's %d
Dec(n) == PadSpace(n, 0)

\* printf's %02X of a byte
Hex2(n) == << HexDigits[(n \div 16) + 1], HexDigits[(n % 16) + 1] >>

eol == << "CR", "LF" >>

(***************************************************************************)
(* APRS::doPassCode and APRS::setCallSign (src/aprs.cpp)                   *)
(***************************************************************************)
\* while ((*callsign != '-') && (*callsign != '\0')) *p1++ = toupper(*callsign++)
RECURSIVE rootCall(_)
rootCall(callsign) ==
    IF callsign = << >> \/ Head(callsign) = "-" THEN << >>
    ELSE << toupper(Head(callsign)) >> \o rootCall(Tail(callsign))

LowByte_Shifted(c) == Ord(c) * 256

\* hash ^= (*ptr++): the second byte of the pair
LowByte(c) == Ord(c)

\* the loop over rootCall two bytes at a time, from position i (0-based);
\* the byte after an odd last one is the terminating NUL
RECURSIVE hashFrom(_, _, _)
hashFrom(root, i, hash) ==
    IF i < Len(root)
    THEN LET h1 == Xor(hash, Ord(root[i + 1]) * 256)
             h2 == Xor(h1, IF i + 2 <= Len(root) THEN LowByte(root[i + 2]) ELSE 0)
         IN  hashFrom(root, i + 2, h2)
    ELSE hash

\* int APRS::doPassCode(char *callsign); 0x73e2 = 29666, hash & 0x7fff
doPassCode(callsign) == hashFrom(rootCall(callsign), 0, 29666) % 32768

\* the fields as setCallSign(callsign) leaves them, callsign not NULL and
\* shorter than the array
CallSignSet(callsign) ==
    /\ aprsCallSign = callsign
    /\ aprsPassCode = PadSpace(doPassCode(callsign), 3)

\* the symbol, the location and the object name, zeroed; "NUL" is the
\* character of code 0
InitLoc ==
    /\ aprsLocation = << >>
    /\ aprsTable = "NUL"
    /\ aprsSymbol = "NUL"
    /\ located = << >>

\* setObjectName(object), object not NULL and shorter than the array:
\* strncpy, then '_' from the end of the name up to the ninth character
ObjectName(object) == Take(object, 9) \o Fill("_", 9 - Len(object))

InitId ==
    /\ aprsCallSign = << >>
    /\ aprsPassCode = << >>
    /\ aprsObjectNm = << >>
    /\ InitLoc

\* the callsigns a session is set up with
SessionCallSigns == { << "N", "0", "C", "A", "L", "L" >>, << "A", "B", "1", "C", "D", "E", "-", "1", "2" >> }

(***************************************************************************)
(* Start-up values of the APRS session (aprs.h: aprsTlmSeq = 999; error    *)
(* and the client zeroed) and of the structured POST call's locals.        *)
(***************************************************************************)
NoAprsCall == [op |-> "none", ret |-> FALSE, conn |-> FALSE, had |-> FALSE,
               link |-> "down", wrote |-> 0, short |-> FALSE, setup |-> 0,
               seq |-> -1, read |-> FALSE, first |-> "pending",
               auth |-> FALSE, args |-> << >>, pkts |-> << >>, code |-> -1]

InitAprs ==
    /\ aprsTlmSeq = 999
    /\ error = FALSE
    /\ aprsClient = [link |-> "down", rx |-> << >>, auth |-> FALSE]
    /\ call = NoAprsCall

\* the NMEA encoder as its constructor leaves it
NmeaNew ==
    [yy |-> 0, ll |-> 0, dd |-> 0, hh |-> 0, mm |-> 0, ss |-> 0, utmOLD |-> 0,
     latDD |-> 0, latMM |-> 0, latFF |-> 0, lngDD |-> 0, lngMM |-> 0, lngFF |-> 0,
     latOLD |-> 0, lngOLD |-> 0]

\* no NMEA or NTP call made yet
NoSentence ==
    [op |-> "none", args |-> << >>, len |-> 0, buf |-> << >>, ret |-> 0,
     hit |-> FALSE, dt |-> << >>]

InitNmea ==
    /\ nmea = NmeaNew
    /\ sentence = NoSentence
    /\ welcome = << >>

\* ntp.h: valid = false, nextSync = 0UL, delta = 0UL
NtpNew == [valid |-> FALSE, delta |-> 0, nextSync |-> 0]

\* no getSeconds call made yet, and no sync attempted
NoNtpCall ==
    [op |-> "none", sync |-> FALSE, at |-> 0, attempted |-> FALSE, utm |-> 0,
     end |-> 0, ret |-> 0, pre |-> NtpNew, n |-> 0,
     prev |-> [made |-> FALSE, ok |-> FALSE, end |-> 0]]

InitNtp ==
    /\ uptime = 0
    /\ ntp = NtpNew
    /\ ntpCall = NoNtpCall

\* #define MAX_CLIENTS 4
MAX_CLIENTS == 4

\* no check() call made yet
NoCheck == [op |-> "none", ret |-> 0, had |-> FALSE, slot |-> -1, was |-> "none",
            rejected |-> FALSE, n |-> 0]

\* the server with every slot free and nothing waiting
InitSrv ==
    /\ TCPClient = [i \in 0 .. MAX_CLIENTS - 1 |-> "free"]
    /\ clients = 0
    /\ pending = 0
    /\ checked = NoCheck

NoFields == [acc |-> -1, err |-> -1, lat |-> 0, lng |-> 0]

InitPost ==
    /\ geoClient = [open |-> FALSE, rx |-> << >>]
    /\ parsed = NoFields

\* the tracker's fields, zeroed
GeoZero ==
    /\ clock = 0
    /\ nets = << >>
    /\ netCount = 0
    /\ prevNets = << >>
    /\ prevNetCount = 0
    /\ current = geo_t(0, 0, FALSE, 0)
    /\ previous = geo_t(0, 0, FALSE, 0)
    /\ locator = << >>
    /\ distance = 0
    /\ speed = 0
    /\ knots = 0
    /\ bearing = 0
    /\ last = NoCall

Init ==
    /\ InitAprs
    /\ InitPost
    /\ InitNmea
    /\ InitNtp
    /\ InitSrv
    /\ InitId
    /\ pc = "idle"
    /\ variant \in {"GEO", "MLS"}
    /\ GeoZero

\* millis() at a call is later than at the call before
Later == { t \in Times : t > clock }

Next ==
    \/ \E raw \in RawScans, sort \in BOOLEAN : wifiScan(raw, sort)
    \/ \E now \in Later, resp \in WiggleResponses : GEO_geoLocation(now, resp)
    \/ \E now \in Later, resp \in PostResponses : MLS_geoLocation(now, resp)
    \/ GEO_getMovement
    \/ MLS_getMovement

Spec == Init /\ [][Next]_vars

(***************************************************************************)
(* networksChanged on its own: the scan and the baseline are drawn from    *)
(* every pair of fingerprints of up to MaxNets entries, and the call is    *)
(* applied to them.                                                        *)
(***************************************************************************)
MaxNets == 2

Fingerprints ==
    UNION { { s \in [1 .. n -> [bssid : {"b1", "b2", "b3"}, rssi : {-70, -60, -55}]] :
                \A i, j \in 1 .. n : i # j => s[i].bssid # s[j].bssid }
            : n \in 0 .. MaxNets }

InitNC ==
    /\ InitAprs
    /\ InitPost
    /\ InitNmea
    /\ InitNtp
    /\ InitSrv
    /\ InitId
    /\ pc = "idle"
    /\ variant = "GEO"
    /\ clock = 0
    /\ nets \in Fingerprints
    /\ netCount = Len(nets)
    /\ prevNets \in Fingerprints
    /\ prevNetCount = Len(prevNets)
    /\ current = geo_t(0, 0, FALSE, 0)
    /\ previous = geo_t(0, 0, FALSE, 0)
    /\ locator = << >>
    /\ distance = 0
    /\ speed = 0
    /\ knots = 0
    /\ bearing = 0
    /\ last = NoCall

CallNetworksChanged ==
    /\ last.op = "none"
    /\ last' = [NoCall EXCEPT !.op = "networksChanged",
                              !.ret = IF networksChanged(nets, netCount) THEN 1 ELSE 0]
    /\ UNCHANGED << variant, clock, nets, netCount, prevNets, prevNetCount, current,
                    previous, locator, distance, speed, knots, bearing >>
    /\ UNCHANGED << aprsVars, postVars, pc, idVars, nmeaVars, ntpVars, srvVars >>

NextNC == CallNetworksChanged

SpecNC == InitNC /\ [][NextNC]_vars

(***************************************************************************)
(* getBearing on its own: the two points are drawn from BearingPoints, as  *)
(* the fixes getMovement would pass, and the call is applied to them.      *)
(***************************************************************************)
BearingPoints ==
    { <<0, 0>>, <<45000000, 10000000>>, <<45001000, 10001000>>,
      <<91000000, 10000000>>, <<45000000, 10001000>>, <<45001000, 10000000>>,
      <<45000000, -10000000>>, <<-33900000, 151200000>> }

InitBearing ==
    /\ InitAprs
    /\ InitPost
    /\ InitNmea
    /\ InitNtp
    /\ InitSrv
    /\ InitId
    /\ pc = "idle"
    /\ variant = "GEO"
    /\ clock = TickMs
    /\ nets = << >>
    /\ netCount = 0
    /\ prevNets = << >>
    /\ prevNetCount = 0
    /\ \E p \in BearingPoints : previous = geo_t(p[1], p[2], TRUE, 0)
    /\ \E p \in BearingPoints : current = geo_t(p[1], p[2], TRUE, TickMs)
    /\ locator = << >>
    /\ distance = 0
    /\ speed = 0
    /\ knots = 0
    /\ bearing = 0
    /\ last = NoCall

CallGetBearing ==
    /\ last.op = "none"
    /\ bearing' = getBearing(previous.latitude, previous.longitude,
                             current.latitude, current.longitude)
    /\ last' = [NoCall EXCEPT !.op = "getBearing", !.ret = bearing']
    /\ UNCHANGED << variant, clock, nets, netCount, prevNets, prevNetCount, current,
                    previous, locator, distance, speed, knots >>
    /\ UNCHANGED << aprsVars, postVars, pc, idVars, nmeaVars, ntpVars, srvVars >>

NextBearing == CallGetBearing

SpecBearing == InitBearing /\ [][NextBearing]_vars

(***************************************************************************)
(* APRS session (src/aprs.cpp).  The transport's link is "down" before any *)
(* connection, after the peer closes and after a failed connect;           *)
(* "stopped" after stop(); "fresh" once connect() succeeds after stop()    *)
(* and until a write on it comes up short; "up" when connected otherwise.  *)
(* Received bytes are tokens: "verified", "CR" for a carriage return, and  *)
(* "x" for any other text.  A write is "full" or "short".  The            *)
(* transport's auth tells whether authenticate() has returned true on the  *)
(* present connection.  The record of a call keeps its arguments and the   *)
(* packets it handed to send, in order.                                    *)
(***************************************************************************)
MaxRx == 2

Tokens == {"verified", "CR", "x"}
Writes == {"full", "short"}

\* WiFiClient::connected(): established, or bytes still to read
Connected(c) == c.link \in {"up", "fresh"} \/ c.rx # << >>

BoolInt(b) == IF b THEN 1 ELSE 0
\* ~x on a two's complement int
BitNot(x) == -x - 1
\* a & x for a in {0, 1}: the lowest bit of x, if a is 1
BitAnd1(a, x) == a * (x % 2)

SendReturn_ResultOnly(result, err) == result

\* return result & (~error);
SendReturn(result, err) == BitAnd1(BoolInt(result), BitNot(BoolInt(err))) # 0

\* what a call has done so far: the link, the error flag, packets written in
\* full, whether a write was short, what the last send returned, whether
\* every send returned true, and the packets handed to send
Started ==
    [link |-> aprsClient.link, rx |-> aprsClient.rx, error |-> error, wrote |-> 0,
     short |-> FALSE, ret |-> FALSE, all |-> TRUE, pkts |-> << >>]

\* APRS::send(pkt), with w what aprsClient.write(pkt) does.  A write on a
\* link that is down (connected() only because bytes are unread) is short.
send(s, pkt, w) ==
    IF Connected(s)
    THEN LET full == w = "full" /\ s.link \in {"up", "fresh"}
             err  == s.error \/ ~full
             ret  == SendReturn(TRUE, err)
         IN  [s EXCEPT !.link = IF ~full /\ s.link = "fresh" THEN "up" ELSE s.link,
                       !.error = err,
                       !.wrote = s.wrote + BoolInt(full),
                       !.short = s.short \/ ~full,
                       !.ret = ret,
                       !.all = s.all /\ ret,
                       !.pkts = Append(s.pkts, pkt)]
    ELSE [s EXCEPT !.error = TRUE, !.ret = SendReturn(FALSE, TRUE), !.all = FALSE,
                   !.pkts = Append(s.pkts, pkt)]

RECURSIVE sendEach(_, _, _)
sendEach(s, pkts, ws) ==
    IF ws = << >> THEN s
    ELSE sendEach(send(s, Head(pkts), Head(ws)), Tail(pkts), Tail(ws))

\* Stream::findUntil("verified", "\r") on the bytes received: found, or
\* stopped at the terminator, or everything read and the read timed out
RECURSIVE findUntil(_)
findUntil(rx) ==
    IF rx = << >> THEN [found |-> FALSE, term |-> FALSE, rest |-> << >>]
    ELSE IF Head(rx) = "verified" THEN [found |-> TRUE, term |-> FALSE, rest |-> Tail(rx)]
    ELSE IF Head(rx) = "CR" THEN [found |-> FALSE, term |-> TRUE, rest |-> Tail(rx)]
    ELSE findUntil(Tail(rx))

\* the call returns: the session as the call left it, and the record of it
Returned(op, args, s, ret, setup, seq) ==
    /\ error' = s.error
    /\ aprsClient' = [aprsClient EXCEPT !.link = s.link]
    /\ call' = [op |-> op, ret |-> ret, conn |-> Connected(aprsClient), had |-> error,
                link |-> aprsClient.link, wrote |-> s.wrote, short |-> s.short,
                setup |-> setup, seq |-> seq, read |-> FALSE, first |-> "pending",
                auth |-> aprsClient.auth, args |-> args, pkts |-> s.pkts, code |-> -1]

\* aprs.h and version.h
aprsPath == << ">", "A", "P", "E", "W", "P", "S", ",", "T", "C", "P", "I", "P", "*", ":" >>
aprsTlmPARM ==
    << "P", "A", "R", "M", ".", "V", "c", "c", ",", "R", "S", "S", "I", ",", "H", "e",
       "a", "p", ",", "A", "c", "c", ",", "S", "p", "d", ",", "P", "R", "O", "B", "E",
       ",", "F", "I", "X", ",", "F", "S", "T", ",", "S", "L", "W", ",", "V", "C", "C",
       ",", "H", "T", ",", "R", "B", ",", "T", "M" >>
aprsTlmEQNS ==
    << "E", "Q", "N", "S", ".", "0", ",", "0", ".", "0", "0", "4", ",", "2", ".", "5",
       ",", "0", ",", "-", "1", ",", "0", ",", "0", ",", "2", "5", "6", ",", "0", ",",
       "0", ",", "1", ",", "0", ",", "0", ".", "0", "0", "0", "8", ",", "0", ",", "0" >>
aprsTlmUNIT ==
    << "U", "N", "I", "T", ".", "V", ",", "d", "B", "m", ",", "B", "y", "t", "e", "s",
       ",", "m", ",", "m", "/", "s", ",", "p", "r", "b", ",", "o", "n", ",", "f", "s",
       "t", ",", "s", "l", "w", ",", "b", "a", "d", ",", "h", "t", ",", "r", "b", ",",
       "e", "r" >>
aprsTlmBITS == << "B", "I", "T", "S", ".", "1", "1", "1", "1", "1", "1", "1", "1", ",", " " >>
pstrSP == << " " >>
pstrCL == << ":" >>
pstrSL == << "/" >>
NODENAME == << "W", "i", "F", "i", "T", "r", "k" >>
VERSION == << "0", ".", "3", ".", "3" >>

\* const int padSize = 9
padSize == 9

\* padCallSign as strncat reads it: the source copied into the array of
\* padSize characters, then spaces from its end up to padSize
padCallSign(src) == Take(src, padSize) \o Fill(" ", padSize - Len(src))

\* the packet of sendStatus(message)
StatusPkt(message) == aprsCallSign \o aprsPath \o << ">" >> \o message \o eol

\* the packet of sendMessage(dest, title, message)
MessagePkt(dest, title, message) ==
    LET pad == IF dest = NULL THEN padCallSign(aprsCallSign) ELSE padCallSign(dest)
        hdr == strncat(aprsCallSign \o aprsPath \o pstrCL, pad, padSize) \o pstrCL
        ttl == IF title # NULL THEN strncat(hdr, title, 8) ELSE hdr
    IN  strncat(ttl, message, 40) \o eol

Trim_Kept(pkt, lenHeader) == pkt

\* aprsPkt[lenHeader] = 0
Trim(pkt, lenHeader) == Take(pkt, lenHeader)

\* the four packets of sendTelemetrySetup(), each built in aprsPkt on what
\* the one before left there
SetupPkts ==
    LET hdr  == strncat(aprsCallSign \o aprsPath \o pstrCL,
                        padCallSign(aprsCallSign), padSize) \o pstrCL
        lenHeader == Len(hdr)
        parm == hdr \o aprsTlmPARM \o eol
        eqns == Trim(parm, lenHeader) \o aprsTlmEQNS \o eol
        unit == Trim(eqns, lenHeader) \o aprsTlmUNIT \o eol
        bits == Trim(unit, lenHeader) \o aprsTlmBITS \o NODENAME \o pstrSL
                    \o VERSION \o eol
    IN  << parm, eqns, unit, bits >>

\* const int bufSize = 40
bufSize == 40

\* itoa(bits, buf, 2)
BitsText(bits) == itoa(bits, 2)

\* the data packet of sendTelemetry(p1 .. p5, bits) with sequence number seq;
\* snprintf keeps at most bufSize - 1 characters
TelemetryPkt(seq, p, bits) ==
    LET buf == Take(<< "T", "#" >> \o PadZero(seq, 3) \o << "," >>
                    \o PadZero(p[1], 3) \o << "," >> \o PadZero(p[2], 3) \o << "," >>
                    \o PadZero(p[3], 3) \o << "," >> \o PadZero(p[4], 3) \o << "," >>
                    \o PadZero(p[5], 3) \o << "," >>, bufSize - 1)
    IN  strncat(strncat(aprsCallSign \o aprsPath, buf, bufSize),
                BitsText(bits), bufSize) \o eol

\* the packet of authenticate()
LoginPkt ==
    << "u", "s", "e", "r", " " >> \o aprsCallSign \o << " ", "p", "a", "s", "s", " " >>
        \o aprsPassCode \o << " ", "v", "e", "r", "s", " " >> \o NODENAME \o pstrSP
        \o VERSION \o eol

\* the characters of buf before its first NUL: what strcat reads of it
CStr(buf) ==
    LET nul == { i \in 1 .. Len(buf) : buf[i] = "NUL" }
    IN  IF nul = {} THEN buf
        ELSE SubSeq(buf, 1, (CHOOSE i \in nul : \A j \in nul : i <= j) - 1)

\* APRS::time(utm, buf, len): "%02d%02d%02dh" of the hour, minute and second
time(utm, len) ==
    Take(PadZero((utm % 86400) \div 3600, 2) \o PadZero((utm % 3600) \div 60, 2)
             \o PadZero(utm % 60, 2) \o << "h" >>, len - 1)

\* APRS::coordinates(buf, lat, lng): buf as sprintf fills it with
\* "%02d%02d.%02d%c%c%03d%02d.%02d%c%c", the table and the symbol as they
\* are; latMM and lngMM are minutes times 100
coordinates(lat, lng, table, symbol) ==
    LET latDD == Abs(lat) \div 1000000
        latMM == ((Abs(lat) - latDD * 1000000) * 6) \div 1000
        lngDD == Abs(lng) \div 1000000
        lngMM == ((Abs(lng) - lngDD * 1000000) * 6) \div 1000
    IN  PadZero(latDD, 2) \o PadZero(latMM \div 100, 2) \o << "." >>
            \o PadZero(latMM % 100, 2) \o << IF lat >= 0 THEN "N" ELSE "S", table >>
            \o PadZero(lngDD, 3) \o PadZero(lngMM \div 100, 2) \o << "." >>
            \o PadZero(lngMM % 100, 2) \o << IF lng >= 0 THEN "E" ELSE "W", symbol >>

\* const int bufSize = 20 of sendPosition, = 10 of sendWeather
posBufSize == 20
wxBufSize == 10

\* (long)(alt * 3.28084), alt in whole metres
Feet(alt) == (alt * 328084) \div 100000

\* the packet of sendPosition(utm, lat, lng, cse, spd, alt, comment, object),
\* with loc what setLocation(lat, lng) has left in aprsLocation
PositionPkt(utm, cse, spd, alt, comment, object, loc) ==
    aprsCallSign \o aprsPath
        \o (IF object # NULL
            THEN << ";" >> \o object \o << "*" >> \o Take(time(utm, posBufSize), posBufSize)
            ELSE << "!" >>)
        \o CStr(loc)
        \o (IF spd >= 0 /\ cse >= 0
            THEN Take(Take(PadZero(cse, 3) \o << "/" >> \o PadZero(spd, 3), posBufSize - 1),
                      posBufSize)
            ELSE << >>)
        \o (IF alt >= 0
            THEN << "/", "A", "=" >> \o Take(PadZero(Feet(alt), 6), posBufSize)
            ELSE << >>)
        \o (IF comment # NULL THEN comment ELSE NODENAME \o pstrSL \o VERSION)
        \o eol

\* char DEVICEID[6]: nothing in the class writes it
DEVICEID == << >>

\* snprintf_P(buf, bufSize, fmt, ...); strncat(aprsPkt, buf, bufSize)
WxField(text) == Take(Take(text, wxBufSize - 1), wxBufSize)

\* the packet of sendWeather(utm, temp, hmdt, pres, srad)
WeatherPkt(utm, temp, hmdt, pres, srad) ==
    aprsCallSign \o aprsPath \o << "@" >> \o Take(time(utm, wxBufSize), wxBufSize)
        \o CStr(aprsLocation) \o << "_" >>
        \o << ".", ".", ".", "/", ".", ".", ".", "g", ".", ".", "." >>
        \o (IF temp >= -460 THEN WxField(<< "t" >> \o PadZero(temp, 3))
            ELSE << "t", ".", ".", "." >>)
        \o (IF hmdt >= 0
            THEN IF hmdt = 100 THEN << "h", "0", "0" >>
                 ELSE WxField(<< "h" >> \o PadZero(hmdt, 2))
            ELSE << >>)
        \o (IF pres >= 0 THEN WxField(<< "b" >> \o PadZero(pres, 5)) ELSE << >>)
        \o (IF srad >= 0
            THEN IF srad < 1000 THEN WxField(<< "L" >> \o PadZero(srad, 3))
                 ELSE WxField(<< "l" >> \o PadZero(srad - 1000, 3))
            ELSE << >>)
        \o DEVICEID \o eol

ConnectError_Reset(ok, err) == ~ok

\* if (!result) error = true;
ConnectError(ok, err) == err \/ ~ok

\* APRS::connect(), with ok what aprsClient.connect returns
APRS_connect(ok) ==
    /\ pc = "idle"
    /\ error' = ConnectError(ok, error)
    /\ aprsClient' = [link |-> IF ~ok THEN "down"
                               ELSE IF aprsClient.link = "stopped" THEN "fresh" ELSE "up",
                      rx |-> << >>, auth |-> FALSE]
    /\ call' = [NoAprsCall EXCEPT !.op = "connect", !.ret = ok,
                                  !.conn = Connected(aprsClient), !.had = error,
                                  !.link = aprsClient.link]
    /\ UNCHANGED << aprsTlmSeq, pc, geoVars, postVars, idVars, nmeaVars, ntpVars, srvVars >>

\* APRS::stop()
APRS_stop ==
    /\ pc = "idle"
    /\ aprsClient' = [link |-> "stopped", rx |-> << >>, auth |-> FALSE]
    /\ call' = [NoAprsCall EXCEPT !.op = "stop", !.conn = Connected(aprsClient),
                                  !.had = error, !.link = aprsClient.link]
    /\ UNCHANGED << aprsTlmSeq, error, pc, geoVars, postVars, idVars, nmeaVars, ntpVars, srvVars >>

\* APRS::send(pkt)
APRS_send(pkt, w) ==
    /\ pc = "idle"
    /\ LET s == send(Started, pkt, w) IN Returned("send", << pkt >>, s, s.ret, 0, -1)
    /\ UNCHANGED << aprsTlmSeq, pc, geoVars, postVars, idVars, nmeaVars, ntpVars, srvVars >>

\* the builders of position and weather packets
PositionBuilders == {"sendPosition", "sendObjectPosition", "sendWeather"}

\* the builders that compose one packet and send it
Builders == {"sendMessage"} \cup PositionBuilders

\* APRS::setSymbol(table, symbol)
APRS_setSymbol(table, symbol) ==
    /\ pc = "idle"
    /\ aprsTable' = table
    /\ aprsSymbol' = symbol
    /\ call' = [NoAprsCall EXCEPT !.op = "setSymbol", !.args = << table, symbol >>]
    /\ UNCHANGED << aprsLocation, located, aprsCallSign, aprsPassCode, aprsObjectNm >>
    /\ UNCHANGED << aprsTlmSeq, error, aprsClient, pc, geoVars, postVars, nmeaVars,
                    ntpVars, srvVars >>

\* APRS::setLocation(lat, lng)
APRS_setLocation(lat, lng) ==
    /\ pc = "idle"
    /\ aprsLocation' = coordinates(lat, lng, aprsTable, aprsSymbol)
    /\ located' = << lat, lng >>
    /\ call' = [NoAprsCall EXCEPT !.op = "setLocation", !.args = << lat, lng >>]
    /\ UNCHANGED << aprsTable, aprsSymbol, aprsCallSign, aprsPassCode, aprsObjectNm >>
    /\ UNCHANGED << aprsTlmSeq, error, aprsClient, pc, geoVars, postVars, nmeaVars,
                    ntpVars, srvVars >>

\* sendPosition and sendObjectPosition: setSymbol('/', '>'), setLocation(lat,
\* lng), then the packet is composed and sent
SendPosition(op, utm, lat, lng, cse, spd, alt, comment, object, w) ==
    /\ pc = "idle"
    /\ aprsTable' = "/"
    /\ aprsSymbol' = ">"
    /\ aprsLocation' = coordinates(lat, lng, aprsTable', aprsSymbol')
    /\ located' = << lat, lng >>
    /\ LET s == send(Started,
                     PositionPkt(utm, cse, spd, alt, comment, object, aprsLocation'), w)
       IN  Returned(op, << utm, lat, lng, cse, spd, alt, comment >>, s, s.ret, 0, -1)
    /\ UNCHANGED << aprsCallSign, aprsPassCode, aprsObjectNm >>
    /\ UNCHANGED << aprsTlmSeq, pc, geoVars, postVars, nmeaVars, ntpVars, srvVars >>

\* APRS::sendPosition(utm, lat, lng, cse, spd, alt, comment), object = NULL
APRS_sendPosition(utm, lat, lng, cse, spd, alt, comment, w) ==
    SendPosition("sendPosition", utm, lat, lng, cse, spd, alt, comment, NULL, w)

\* APRS::sendObjectPosition(utm, lat, lng, cse, spd, alt, comment)
APRS_sendObjectPosition(utm, lat, lng, cse, spd, alt, comment, w) ==
    SendPosition("sendObjectPosition", utm, lat, lng, cse, spd, alt, comment,
                 aprsObjectNm, w)

\* APRS::sendWeather(utm, temp, hmdt, pres, srad): setSymbol('/', '_') leaves
\* aprsLocation as it is
APRS_sendWeather(utm, temp, hmdt, pres, srad, w) ==
    /\ pc = "idle"
    /\ aprsTable' = "/"
    /\ aprsSymbol' = "_"
    /\ LET s == send(Started, WeatherPkt(utm, temp, hmdt, pres, srad), w)
       IN  Returned("sendWeather", << utm, temp, hmdt, pres, srad >>, s, s.ret, 0, -1)
    /\ UNCHANGED << aprsLocation, located, aprsCallSign, aprsPassCode, aprsObjectNm >>
    /\ UNCHANGED << aprsTlmSeq, pc, geoVars, postVars, nmeaVars, ntpVars, srvVars >>

\* APRS::sendMessage(dest, title, message)
APRS_sendMessage(dest, title, message, w) ==
    /\ pc = "idle"
    /\ LET s == send(Started, MessagePkt(dest, title, message), w)
       IN  Returned("sendMessage", << dest, title, message >>, s, s.ret, 0, -1)
    /\ UNCHANGED << aprsTlmSeq, pc, geoVars, postVars, idVars, nmeaVars, ntpVars, srvVars >>

StatusSent_Always(message) == TRUE

\* if (message[0] != 0)
StatusSent(message) == message # << >>

\* APRS::sendStatus(message): an empty message sends nothing and the
\* function ends without a return statement, so the caller reads whatever
\* the return register holds
APRS_sendStatus(message, w, garbage) ==
    /\ pc = "idle"
    /\ IF StatusSent(message)
       THEN LET s == send(Started, StatusPkt(message), w)
            IN  Returned("sendStatus", << message >>, s, s.ret, 0, -1)
       ELSE Returned("sendStatus", << message >>, Started, garbage, 0, -1)
    /\ UNCHANGED << aprsTlmSeq, pc, geoVars, postVars, idVars, nmeaVars, ntpVars, srvVars >>

\* APRS::sendTelemetrySetup(): four packets.  padCallSign[padSize] = 0
\* writes one byte past the array, which may be the byte of result.
APRS_sendTelemetrySetup(ws, clobbered) ==
    /\ pc = "idle"
    /\ LET s == sendEach(Started, SetupPkts, ws)
       IN  Returned("sendTelemetrySetup", << >>, s, s.all /\ ~clobbered, 1, -1)
    /\ UNCHANGED << aprsTlmSeq, pc, geoVars, postVars, idVars, nmeaVars, ntpVars, srvVars >>

NextTlmSeq_WrapAfter1000(seq) == IF seq + 1 > 1000 THEN 0 ELSE seq + 1

\* if (++aprsTlmSeq > 999) aprsTlmSeq = 0;
NextTlmSeq(seq) == IF seq + 1 > 999 THEN 0 ELSE seq + 1

SetupDue_Below2(seq) == seq < 2

SetupDue_AtOne(seq) == seq = 1

\* if (aprsTlmSeq == 0) sendTelemetrySetup();
SetupDue(seq) == seq = 0

\* APRS::sendTelemetry(...): the definitions when due, then the data packet
APRS_sendTelemetry(p, bits, ws) ==
    /\ pc = "idle"
    /\ LET seq   == NextTlmSeq(aprsTlmSeq)
           setup == IF SetupDue(seq) THEN 1 ELSE 0
           pkts  == (IF setup = 1 THEN SetupPkts ELSE << >>)
                        \o << TelemetryPkt(seq, p, bits) >>
       IN  /\ Len(ws) = 4 * setup + 1
           /\ aprsTlmSeq' = seq
           /\ LET s == sendEach(Started, pkts, ws)
              IN  Returned("sendTelemetry", << p, bits >>, s, s.ret, setup, seq)
    /\ UNCHANGED << pc, geoVars, postVars, idVars, nmeaVars, ntpVars, srvVars >>

AuthAttempted_Always(c) == TRUE

\* if (aprsClient.connected()) { ... }
AuthAttempted(c) == Connected(c)

\* APRS::authenticate(), up to the loop: nothing if not connected, else the
\* credentials are sent and, if send returns true, the reply is awaited
APRS_authenticate(w) ==
    /\ pc = "idle"
    /\ IF AuthAttempted(aprsClient)
       THEN LET s == send(Started, LoginPkt, w)
            IN  /\ Returned("authenticate", << >>, s, FALSE, 0, -1)
                /\ pc' = IF s.ret THEN "authenticate" ELSE "idle"
       ELSE /\ Returned("authenticate", << >>, Started, FALSE, 0, -1)
            /\ pc' = "idle"
    /\ UNCHANGED << aprsTlmSeq, geoVars, postVars, idVars, nmeaVars, ntpVars, srvVars >>

\* one turn of  while (aprsClient.connected() and (not result))
\*                result = aprsClient.findUntil("verified", "\r");
\* call.first follows the reply's first line: whether "verified" came
\* before the first carriage return.  Bytes left unread at the return are
\* not kept: nothing else in the class reads.
authenticate_loop ==
    /\ pc = "authenticate"
    /\ IF Connected(aprsClient)
       THEN LET f == findUntil(aprsClient.rx)
            IN  /\ aprsClient' = [aprsClient EXCEPT
                                     !.rx = IF f.found THEN << >> ELSE f.rest,
                                     !.auth = @ \/ f.found]
                /\ call' = [call EXCEPT
                              !.ret = f.found,
                              !.read = TRUE,
                              !.first = IF call.first # "pending" THEN call.first
                                        ELSE IF f.found THEN "verified"
                                        ELSE IF f.term THEN "other"
                                        ELSE "pending"]
                /\ pc' = IF f.found THEN "idle" ELSE "authenticate"
       ELSE /\ pc' = "idle"
            /\ UNCHANGED << aprsClient, call >>
    /\ UNCHANGED << aprsTlmSeq, error, geoVars, postVars, idVars, nmeaVars, ntpVars, srvVars >>

\* the server or the network closes the connection
PeerClose ==
    /\ aprsClient.link \in {"up", "fresh"}
    /\ aprsClient' = [aprsClient EXCEPT !.link = "down", !.auth = FALSE]
    /\ UNCHANGED << aprsTlmSeq, error, call, pc, geoVars, postVars, idVars, nmeaVars, ntpVars, srvVars >>

\* the server sends more of its reply
PeerSend(t) ==
    /\ pc = "authenticate"
    /\ aprsClient.link \in {"up", "fresh"}
    /\ Len(aprsClient.rx) < MaxRx
    /\ aprsClient' = [aprsClient EXCEPT !.rx = Append(aprsClient.rx, t)]
    /\ UNCHANGED << aprsTlmSeq, error, call, pc, geoVars, postVars, idVars, nmeaVars, ntpVars, srvVars >>

InitAPRS ==
    /\ InitAprs
    /\ InitPost
    /\ InitNmea
    /\ InitNtp
    /\ InitSrv
    /\ \E cs \in SessionCallSigns : CallSignSet(cs)
    /\ aprsObjectNm = ObjectName(<< "W", "I", "P", "S" >>)
    /\ InitLoc
    /\ pc = "idle"
    /\ variant = "APRS"
    /\ GeoZero

WriteSeqs(n) == [1 .. n -> Writes]

\* arguments of the calls
RawPkts == { << "T" >> \o eol }
Statuses == { << >>, << "O", "n", " ", "a", "i", "r" >> }
Dests == { NULL, << "A", "B" >>, << "A", "B", "C", "D", "E", "F", "G", "H", "I", "J", "K" >> }
Titles == { NULL, << "T", ":" >>, << "L", "O", "N", "G", "T", "I", "T", "L", "E", ":" >> }
Bodies == { << "h", "i" >>, Fill("m", 50) }
\* the messages of a session: each destination, title and body, in five
\* combinations
Messages ==
    LET long == << "A", "B", "C", "D", "E", "F", "G", "H", "I", "J", "K" >>
        head == << "L", "O", "N", "G", "T", "I", "T", "L", "E", ":" >>
    IN  { m \in Dests \X Titles \X Bodies :
            m \in { << NULL, NULL, << "h", "i" >> >>,
                    << << "A", "B" >>, << "T", ":" >>, << "h", "i" >> >>,
                    << long, << "T", ":" >>, Fill("m", 50) >>,
                    << NULL, head, Fill("m", 50) >>,
                    << << "A", "B" >>, head, << "h", "i" >> >> } }
TlmValues == { << 173, 62, 213, 2, 0 >> }
TlmBits == { 0, 5, 255 }
\* 2024-02-29 12:34:56 at (45.5, 10.25), course 271, speed 12, no altitude
SessionFixes == { << 1709210096, 45500000, 10250000, 271, 12, -1, NULL >> }
\* 44 F, 86 %, 1020.1 hPa, 1 W/m^2
SessionWeather == { << 1709210096, 44, 86, 10201, 1 >> }

\* the session as a whole: every operation, with telemetry sent until the
\* sequence number reaches MaxTlm
MaxTlm == 2

NextAPRS ==
    \/ \E ok \in BOOLEAN : APRS_connect(ok)
    \/ APRS_stop
    \/ \E pkt \in RawPkts, w \in Writes : APRS_send(pkt, w)
    \/ \E f \in SessionFixes, w \in Writes :
          APRS_sendPosition(f[1], f[2], f[3], f[4], f[5], f[6], f[7], w)
    \/ \E f \in SessionFixes, w \in Writes :
          APRS_sendObjectPosition(f[1], f[2], f[3], f[4], f[5], f[6], f[7], w)
    \/ \E x \in SessionWeather, w \in Writes :
          APRS_sendWeather(x[1], x[2], x[3], x[4], x[5], w)
    \/ \E m \in Messages, w \in Writes : APRS_sendMessage(m[1], m[2], m[3], w)
    \/ \E message \in Statuses, w \in Writes, garbage \in BOOLEAN :
          APRS_sendStatus(message, w, garbage)
    \/ \E ws \in WriteSeqs(4), clobbered \in BOOLEAN : APRS_sendTelemetrySetup(ws, clobbered)
    \/ /\ aprsTlmSeq = 999 \/ aprsTlmSeq < MaxTlm
       /\ \E p \in TlmValues, bits \in TlmBits, ws \in WriteSeqs(1) \cup WriteSeqs(5) :
             APRS_sendTelemetry(p, bits, ws)
    \/ \E w \in Writes : APRS_authenticate(w)
    \/ authenticate_loop
    \/ PeerClose
    \/ \E t \in Tokens : PeerSend(t)

SpecAPRS == InitAPRS /\ [][NextAPRS]_vars

\* the loop of authenticate takes its next turn
FairSpecAPRS == SpecAPRS /\ WF_vars(authenticate_loop)

\* telemetry over the whole cycle of the sequence number, on a transport
\* that connects, fails to connect, and is closed by the peer
NextTlm ==
    \/ \E ok \in BOOLEAN : APRS_connect(ok)
    \/ \E p \in TlmValues, bits \in TlmBits, ws \in WriteSeqs(1) \cup WriteSeqs(5) :
          APRS_sendTelemetry(p, bits, ws)
    \/ PeerClose

SpecTlm == InitAPRS /\ [][NextTlm]_vars

(***************************************************************************)
(* Position and weather reports on a connected session: the symbol and     *)
(* the location are set by setSymbol and setLocation or by sendPosition,   *)
(* and sendWeather reads them.  Coordinates are values a float holds       *)
(* exactly, so that the float arithmetic of coordinates() is exact.        *)
(***************************************************************************)
\* the primary and the alternate symbol table; a car, a house, a weather station
WxTables == { "/", "\\" }
WxSymbols == { ">", "-", "_" }
\* (45.5, 10.25), (-33.75, -151.125)
WxCoords == { << 45500000, 10250000 >>, << -33750000, -151125000 >> }
\* 2024-02-29 12:34:56 and 2026-11-01 08:05:09
WxTimes == { 1709210096, 1793520309 }
\* course, speed, altitude and comment of a position report
WxTracks == { << 271, 12, -1, NULL >>, << -1, 0, 100, << "h", "i" >> >> }
\* temperature, humidity, pressure, solar radiation: all known; all unknown;
\* below zero, saturated, solar radiation over 1000 W/m^2
WxValues == { << 44, 86, 10201, 1 >>, << -461, -1, -1, -1 >>, << -5, 100, 9990, 1200 >> }

InitWx ==
    /\ InitAprs
    /\ InitPost
    /\ InitNmea
    /\ InitNtp
    /\ InitSrv
    /\ CallSignSet(<< "N", "0", "C", "A", "L", "L" >>)
    /\ aprsObjectNm = ObjectName(<< "W", "I", "P", "S" >>)
    /\ InitLoc
    /\ pc = "idle"
    /\ variant = "APRS"
    /\ GeoZero

NextWx ==
    \/ APRS_connect(TRUE)
    \/ \E table \in WxTables, symbol \in WxSymbols : APRS_setSymbol(table, symbol)
    \/ \E c \in WxCoords : APRS_setLocation(c[1], c[2])
    \/ \E utm \in WxTimes, c \in WxCoords, t \in WxTracks :
          APRS_sendPosition(utm, c[1], c[2], t[1], t[2], t[3], t[4], "full")
    \/ \E utm \in WxTimes, c \in WxCoords, t \in WxTracks :
          APRS_sendObjectPosition(utm, c[1], c[2], t[1], t[2], t[3], t[4], "full")
    \/ \E utm \in WxTimes, x \in WxValues :
          APRS_sendWeather(utm, x[1], x[2], x[3], x[4], "full")

SpecWx == InitWx /\ [][NextWx]_vars

(***************************************************************************)
(* setCallSign on its own: the callsign is every text of up to MaxCall     *)
(* characters over CallChars, or one of NamedCallSigns.                    *)
(***************************************************************************)
MaxCall == 2

CallChars == { "N", "n", "0", "C", "c", "-", "9", "A", "a", "Z" }

NamedCallSigns ==
    { << "N", "0", "C", "A", "L", "L" >>,
      << "N", "0", "C", "A", "L", "L", "-", "9" >>,
      << "n", "0", "c", "a", "l", "l" >>,
      << "n", "0", "C", "a", "l", "l", "-", "1", "5" >>,
      << "A", "B", "1", "C", "D", "E", "-", "1", "2" >>,
      << "A", "B", "C", "D", "E", "F", "G", "H", "I" >>,
      << "y", "o", "3", "a", "b", "c", "-", "1" >> }

PassCallSigns ==
    NamedCallSigns \cup UNION { [1 .. n -> CallChars] : n \in 0 .. MaxCall }

\* APRS::setCallSign(callsign), callsign not NULL: strncpy into
\* aprsCallSign[10], then "%3d" of doPassCode into aprsPassCode[10].  The
\* call does not read the fields, so it is made once, from the start-up
\* state.
APRS_setCallSign(callsign) ==
    /\ pc = "idle"
    /\ call.op = "none"
    /\ Len(callsign) < 10
    /\ aprsCallSign' = Take(callsign, 10)
    /\ aprsPassCode' = Take(PadSpace(doPassCode(aprsCallSign'), 3), 9)
    /\ call' = [NoAprsCall EXCEPT !.op = "setCallSign", !.args = << callsign >>,
                                  !.code = doPassCode(aprsCallSign')]
    /\ UNCHANGED << aprsObjectNm, locVars >>
    /\ UNCHANGED << aprsTlmSeq, error, aprsClient, pc, geoVars, postVars, nmeaVars, ntpVars, srvVars >>

InitPass ==
    /\ InitAprs
    /\ InitPost
    /\ InitNmea
    /\ InitNtp
    /\ InitSrv
    /\ InitId
    /\ pc = "idle"
    /\ variant = "APRS"
    /\ GeoZero

NextPass == \E callsign \in PassCallSigns : APRS_setCallSign(callsign)

SpecPass == InitPass /\ [][NextPass]_vars

(***************************************************************************)
(* NMEA encoder (src/nmea.cpp) and NTP::getDateTime (src/ntp.cpp).         *)
(* Timestamps are Unix seconds from 2000-01-01 up to 2^31 - 1.             *)
(* Coordinates are in micro-degrees and are values a float holds exactly,  *)
(* with a fraction whose minutes times 10000 is a whole number, so that    *)
(* the float arithmetic of getCoords is exact.                             *)
(***************************************************************************)
daysInMonth == << 31, 28, 31, 30, 31, 30, 31, 31, 30, 31, 30, 31 >>

Leap_Never(yy) == 0

\* leap = yy % 4 == 0
Leap(yy) == IF yy % 4 = 0 THEN 1 ELSE 0

\* for (yy = 0; ; ++yy) { leap = ...; if (days < 365 + leap) break; days -= 365 + leap; }
RECURSIVE YearLoop(_, _)
YearLoop(yy, days) ==
    IF days < 365 + Leap(yy) THEN [yy |-> yy, days |-> days, leap |-> Leap(yy)]
    ELSE YearLoop(yy + 1, days - (365 + Leap(yy)))

\* for (ll = 1; ; ++ll) { ...; if (days < daysPerMonth) break; days -= daysPerMonth; }
RECURSIVE MonthLoop(_, _, _)
MonthLoop(ll, days, leap) ==
    LET daysPerMonth == daysInMonth[ll] + (IF leap = 1 /\ ll = 2 THEN 1 ELSE 0)
    IN  IF days < daysPerMonth THEN [ll |-> ll, days |-> days]
        ELSE MonthLoop(ll + 1, days - daysPerMonth, leap)

\* the decomposition of utm, and utm as the divisions leave it (hours
\* since 2000-01-01); days is a uint16_t
Decompose(utm0) ==
    LET utm1 == utm0 - 946684800
        utm2 == utm1 \div 60
        utm3 == utm2 \div 60
        days == (utm3 \div 24) % 65536
        y    == YearLoop(0, days)
        m    == MonthLoop(1, y.days, y.leap)
    IN  [ss |-> utm1 % 60, mm |-> utm2 % 60, hh |-> utm3 % 24,
         yy |-> y.yy, ll |-> m.ll, dd |-> m.days + 1, utm |-> utm3]

\* NMEA::getTime(utm)
getTime(n, utm) ==
    IF utm # n.utmOLD
    THEN LET d == Decompose(utm)
         IN  [n EXCEPT !.ss = d.ss, !.mm = d.mm, !.hh = d.hh, !.yy = d.yy,
                       !.ll = d.ll, !.dd = d.dd, !.utmOLD = d.utm]
    ELSE n

\* NTP::getDateTime(utm): the same steps into a datetime_t of uint8_t fields
getDateTime(utm) ==
    LET d == Decompose(utm)
    IN  [yy |-> d.yy % 256, ll |-> d.ll % 256, dd |-> d.dd % 256,
         hh |-> d.hh, mm |-> d.mm, ss |-> d.ss]

CoordChanged_Degrees(x, old) == x \div 1000000 # old \div 1000000

\* if (lat != latOLD)
CoordChanged(x, old) == x # old

\* (int)(abs(x)): whole degrees
Degrees(x) == Abs(x) \div 1000000

\* (int)((fabs(x) - DD) * 60 * 10000): minutes times 10000
Minutes(x) == ((Abs(x) - Degrees(x) * 1000000) * 6) \div 10

\* NMEA::getCoords(lat, lng)
getCoords(n, lat, lng) ==
    LET n1 == IF CoordChanged(lat, n.latOLD)
              THEN [n EXCEPT !.latDD = Degrees(lat), !.latFF = Minutes(lat) % 10000,
                             !.latMM = Minutes(lat) \div 10000, !.latOLD = lat]
              ELSE n
    IN  IF CoordChanged(lng, n1.lngOLD)
        THEN [n1 EXCEPT !.lngDD = Degrees(lng), !.lngFF = Minutes(lng) % 10000,
                        !.lngMM = Minutes(lng) \div 10000, !.lngOLD = lng]
        ELSE n1

\* c ^= *s++ over the characters of s; the XORs are grouped by halves
RECURSIVE XorAll(_)
XorAll(s) ==
    IF s = << >> THEN 0
    ELSE IF Len(s) = 1 THEN Ord(s[1])
    ELSE LET h == Len(s) \div 2
         IN  Xor(XorAll(SubSeq(s, 1, h)), XorAll(SubSeq(s, h + 1, Len(s))))

checksum_WithDollar(s) == XorAll(s)

\* NMEA::checksum(s): s++ skips the first character, then c ^= *s++
checksum(s) == XorAll(Tail(s))

\* snprintf(buf, len, ...) keeps at most len - 1 characters of the body;
\* then "*%02X\r\n" of the checksum is appended with strcat, which does not
\* know len: the result is every character the getter writes, those past
\* buf[len - 1] included
WithChecksum(body, len) ==
    LET buf == Take(body, len - 1)
    IN  buf \o << "*" >> \o Hex2(checksum(buf)) \o eol

\* "%02d%02d%02d.0" of hh, mm, ss
TimeText(n) == PadZero(n.hh, 2) \o PadZero(n.mm, 2) \o PadZero(n.ss, 2) \o << ".", "0" >>

\* "%02d%02d.%04d,%c,%03d%02d.%04d,%c" of the coordinates and hemispheres
CoordText(n, lat, lng) ==
    PadZero(n.latDD, 2) \o PadZero(n.latMM, 2) \o << "." >> \o PadZero(n.latFF, 4)
        \o << ",", IF lat >= 0 THEN "N" ELSE "S", "," >>
        \o PadZero(n.lngDD, 3) \o PadZero(n.lngMM, 2) \o << "." >> \o PadZero(n.lngFF, 4)
        \o << ",", IF lng >= 0 THEN "E" ELSE "W" >>

\* crs > 0 ? crs : 0
Course(crs) == IF crs > 0 THEN crs ELSE 0

\* the getters: the encoder after the call and the sentence
getGGA(n0, len, utm, lat, lng, fix, sat) ==
    LET n == getTime(getCoords(n0, lat, lng), utm)
    IN  [nmea |-> n,
         buf |-> WithChecksum(<< "$", "G", "P", "G", "G", "A", "," >> \o TimeText(n) \o << "," >>
                     \o CoordText(n, lat, lng) \o << "," >> \o Dec(fix) \o << "," >>
                     \o Dec(sat) \o << ",", "1", ",", "0", ",", "M", ",", "0", ",", "M", ",", "," >>, len)]

getRMC(n0, len, utm, lat, lng, spd, crs) ==
    LET n == getTime(getCoords(n0, lat, lng), utm)
    IN  [nmea |-> n,
         buf |-> WithChecksum(<< "$", "G", "P", "R", "M", "C", "," >> \o TimeText(n) \o << ",", "A", "," >>
                     \o CoordText(n, lat, lng) \o << "," >> \o PadZero(spd, 3)
                     \o << ".", "0", "," >> \o PadZero(Course(crs), 3)
                     \o << ".", "0", "," >> \o PadZero(n.dd, 2) \o PadZero(n.ll, 2)
                     \o PadZero(n.yy, 2) \o << ",", ",", ",", "E" >>, len)]

getGLL(n0, len, utm, lat, lng) ==
    LET n == getTime(getCoords(n0, lat, lng), utm)
    IN  [nmea |-> n,
         buf |-> WithChecksum(<< "$", "G", "P", "G", "L", "L", "," >> \o CoordText(n, lat, lng) \o << "," >>
                     \o TimeText(n) \o << ",", "A", ",", "E" >>, len)]

getVTG(n0, len, crs, knts, kmh) ==
    [nmea |-> n0,
     buf |-> WithChecksum(<< "$", "G", "P", "V", "T", "G", "," >> \o PadZero(Course(crs), 3)
                 \o << ".", "0", ",", "T", ",", ",", "M", "," >> \o PadZero(knts, 3) \o << ".", "0", ",", "N", "," >>
                 \o PadZero(kmh, 3) \o << ".", "0", ",", "K", ",", "E" >>, len)]

getZDA(n0, len, utm) ==
    LET n == getTime(n0, utm)
    IN  [nmea |-> n,
         buf |-> WithChecksum(<< "$", "G", "P", "Z", "D", "A", "," >> \o TimeText(n) \o << "," >>
                     \o PadZero(n.dd, 2) \o << "," >> \o PadZero(n.ll, 2) \o << "," >>
                     \o PadZero(n.yy + 2000, 4) \o << ",", "," >>, len)]

\* the sentence op(args) gives on the encoder n0 with a buffer of len
Encode(n0, op, len, args) ==
    CASE op = "getGGA" -> getGGA(n0, len, args[1], args[2], args[3], args[4], args[5])
      [] op = "getRMC" -> getRMC(n0, len, args[1], args[2], args[3], args[4], args[5])
      [] op = "getGLL" -> getGLL(n0, len, args[1], args[2], args[3])
      [] op = "getVTG" -> getVTG(n0, len, args[1], args[2], args[3])
      [] op = "getZDA" -> getZDA(n0, len, args[1])

\* the getters that take coordinates, and those that take a timestamp
CoordOps == {"getGGA", "getRMC", "getGLL"}
TimeOps == CoordOps \cup {"getZDA"}

\* one call of a getter: the sentence is built in buf and its length returned
NMEA_call(op, len, args) ==
    /\ pc = "idle"
    /\ LET r == Encode(nmea, op, len, args)
       IN  /\ nmea' = r.nmea
           /\ sentence' = [op |-> op, args |-> args, len |-> len, buf |-> r.buf,
                            ret |-> Len(r.buf),
                            hit |-> /\ op \in CoordOps
                                    /\ ~CoordChanged(args[2], nmea.latOLD)
                                    /\ ~CoordChanged(args[3], nmea.lngOLD),
                            dt |-> << >>]
    /\ UNCHANGED << welcome, geoVars, aprsVars, postVars, pc, idVars, ntpVars, srvVars >>

NMEA_getGGA(len, utm, lat, lng, fix, sat) ==
    NMEA_call("getGGA", len, << utm, lat, lng, fix, sat >>)

NMEA_getRMC(len, utm, lat, lng, spd, crs) ==
    NMEA_call("getRMC", len, << utm, lat, lng, spd, crs >>)

NMEA_getGLL(len, utm, lat, lng) == NMEA_call("getGLL", len, << utm, lat, lng >>)

NMEA_getVTG(len, crs, knts, kmh) == NMEA_call("getVTG", len, << crs, knts, kmh >>)

NMEA_getZDA(len, utm) == NMEA_call("getZDA", len, << utm >>)

\* NTP::getDateTime(utm)
NTP_getDateTime(utm) ==
    /\ pc = "idle"
    /\ sentence' = [NoSentence EXCEPT !.op = "getDateTime", !.args = << utm >>,
                                      !.dt = getDateTime(utm)]
    /\ UNCHANGED << nmea, welcome, geoVars, aprsVars, postVars, pc, idVars, ntpVars, srvVars >>

\* arguments of the calls: 2000-01-01 00:00:00, 2000-02-29 23:59:59,
\* 2000-03-01 00:00:00, 2000-12-31 23:59:59, 2001-01-01 00:00:00,
\* 2001-02-28 23:59:59, 2001-03-01 00:00:00, 2023-12-31 23:59:59,
\* 2024-02-29 12:34:56, 2026-11-01 08:05:09, 2038-01-19 03:14:07
NmeaTimes ==
    { 946684800, 951868799, 951868800, 978307199, 978307200, 983404799,
      983404800, 1704067199, 1709210096, 1793520309, 2147483647 }

\* (0, 0), (45.5, 10.25), (45.515625, 10.25), (-33.75, -151.125)
NmeaCoords ==
    { << 0, 0 >>, << 45500000, 10250000 >>, << 45515625, 10250000 >>,
      << -33750000, -151125000 >> }

\* the timestamps of position fixes: the first, and two later ones
FixTimes == { 946684800, 1709210096, 1793520309 }

NmeaLens == { 100 }
\* buffers shorter than the sentence: one that cuts the body of the ZDA
\* sentence (28 characters) and one that holds the body but not the checksum
ShortLens == { 20, 30 }
FixSats == { << 1, 4 >> }
SpeedCourses == { << 0, -1 >>, << 12, 271 >> }
Tracks == { << -1, 0, 0 >>, << 271, 12, 22 >> }

InitNMEA ==
    /\ InitAprs
    /\ InitPost
    /\ InitNmea
    /\ InitNtp
    /\ InitSrv
    /\ InitId
    /\ pc = "idle"
    /\ variant = "NMEA"
    /\ GeoZero

NextNMEA ==
    \/ \E len \in NmeaLens, utm \in FixTimes, c \in NmeaCoords, f \in FixSats :
          NMEA_getGGA(len, utm, c[1], c[2], f[1], f[2])
    \/ \E len \in NmeaLens, utm \in FixTimes, c \in NmeaCoords, v \in SpeedCourses :
          NMEA_getRMC(len, utm, c[1], c[2], v[1], v[2])
    \/ \E len \in NmeaLens, utm \in FixTimes, c \in NmeaCoords :
          NMEA_getGLL(len, utm, c[1], c[2])
    \/ \E len \in NmeaLens, t \in Tracks : NMEA_getVTG(len, t[1], t[2], t[3])
    \/ \E len \in NmeaLens, utm \in NmeaTimes : NMEA_getZDA(len, utm)
    \/ \E len \in ShortLens, utm \in FixTimes : NMEA_getZDA(len, utm)
    \/ \E utm \in NmeaTimes : NTP_getDateTime(utm)

SpecNMEA == InitNMEA /\ [][NextNMEA]_vars

(***************************************************************************)
(* NMEA::getWelcome (src/nmea.cpp).  welcome is a member array of 80       *)
(* characters that the constructor does not write: it is empty in an       *)
(* object of static storage and holds whatever the memory held in any      *)
(* other, here one character before a terminator.  A call whose text does  *)
(* not fit the array writes past it; the calls made here are those that    *)
(* fit.                                                                    *)
(***************************************************************************)
\* char welcome[80]
WelcomeSize == 80

\* __DATE__ of the build: "Mmm dd yyyy"
BuildDate == << "N", "o", "v", " ", " ", "1", " ", "2", "0", "2", "6" >>

\* the text the strcat calls append to what welcome holds
WelcomeBody(name, vers) ==
    << "$", "P", "V", "E", "R", "S", "," >> \o name \o << "," >> \o vers
        \o << "," >> \o BuildDate

\* strcat(welcome, text)
Appended(buf, text) == buf \o text

\* welcome after getWelcome(name, vers): the text is appended to what
\* welcome holds, and the checksum is taken over all of welcome
getWelcome(buf, name, vers) ==
    LET b == Appended(buf, WelcomeBody(name, vers))
    IN  b \o << "*" >> \o Hex2(checksum(b)) \o eol

\* NMEA::getWelcome(name, vers)
NMEA_getWelcome(name, vers) ==
    /\ pc = "idle"
    /\ Len(getWelcome(welcome, name, vers)) < WelcomeSize
    /\ welcome' = getWelcome(welcome, name, vers)
    /\ sentence' = [NoSentence EXCEPT !.op = "getWelcome", !.args = << name, vers >>,
                                      !.len = WelcomeSize, !.buf = welcome',
                                      !.ret = Len(welcome')]
    /\ UNCHANGED << nmea, geoVars, aprsVars, postVars, pc, idVars, ntpVars, srvVars >>

WelcomeNames ==
    { NODENAME, << "W", "i", "P", "S" >>, << "W" >>, << "w", "i", "f", "i", "t", "r", "k" >>,
      << >> }
WelcomeVersions == { VERSION, << "1" >> }
WelcomeAtStart == { << >>, << "?" >> }

InitWelcome ==
    /\ InitAprs
    /\ InitPost
    /\ nmea = NmeaNew
    /\ sentence = NoSentence
    /\ welcome \in WelcomeAtStart
    /\ InitNtp
    /\ InitSrv
    /\ InitId
    /\ pc = "idle"
    /\ variant = "Welcome"
    /\ GeoZero

NextWelcome == \E name \in WelcomeNames, vers \in WelcomeVersions : NMEA_getWelcome(name, vers)

SpecWelcome == InitWelcome /\ [][NextWelcome]_vars

(***************************************************************************)
(* NTP::getSeconds (src/ntp.cpp).  millis() is an unsigned long of 32 bits *)
(* in milliseconds; the model reads the clock in units of UnitMs = 32 ms,  *)
(* in which one minute, eight hours and 2^32 ms are whole numbers, so that *)
(* the sums and the comparison of the code are exact on these readings.    *)
(* uptime is the time since start-up and does not wrap; millis() does.     *)
(***************************************************************************)
UnitMs == 32
\* 2^32 ms, in units
Wrap == 134217728
\* 60000UL and 28800000UL ms, in units
SyncRetry == 1875
SyncEvery == 900000
\* getSeconds calls in one behaviour
MaxSyncCalls == 3
\* the Unix time at start-up: 2026-11-01 08:05:09
BootTime == 1793520309
\* float TZ = 0
TZ == 0

\* millis() when the uptime is t
millis(t) == t % Wrap

\* millis() / 1000: m * 32 / 1000 with the common factor 8 taken out, to
\* stay within 32 bits
Seconds(m) == (m * (UnitMs \div 8)) \div 125

\* if (millis() >= nextSync and sync)
SyncDue(m, nextSync, sync) == m >= nextSync /\ sync

\* the sync attempt made last, as a call leaves it
LastAttempt(c) ==
    IF c.attempted THEN [made |-> TRUE, ok |-> c.utm # 0, end |-> c.end] ELSE c.prev

\* NTP::getSeconds(sync) entered at uptime now; getNTP(), if called, takes
\* took and returns the Unix time (ok) or 0.  The reads of millis() after
\* getNTP() give one value.
NTP_getSeconds(sync, now, took, ok) ==
    /\ pc = "idle"
    /\ ntpCall.n < MaxSyncCalls
    /\ now >= uptime
    /\ LET attempted == SyncDue(millis(now), ntp.nextSync, sync)
           end == IF attempted THEN now + took ELSE now
           utm == IF attempted /\ ok THEN BootTime + Seconds(end) ELSE 0
       IN  /\ uptime' = end
           /\ ntp' = IF ~attempted THEN ntp
                     ELSE IF utm = 0
                     THEN [ntp EXCEPT !.nextSync = (millis(end) + SyncRetry) % Wrap,
                                      !.valid = FALSE]
                     ELSE [delta |-> utm - Seconds(millis(end)),
                           nextSync |-> (millis(end) + SyncEvery) % Wrap,
                           valid |-> TRUE]
           /\ ntpCall' = [op |-> "getSeconds", sync |-> sync, at |-> now,
                          attempted |-> attempted, utm |-> utm, end |-> end,
                          ret |-> Seconds(millis(end)) + ntp'.delta + TZ * 3600,
                          pre |-> ntp, n |-> ntpCall.n + 1,
                          prev |-> LastAttempt(ntpCall)]
    /\ UNCHANGED << geoVars, aprsVars, postVars, pc, idVars, nmeaVars, srvVars >>

\* the time between two calls: none, one unit, a minute less one unit, a
\* minute, eight hours less one unit, eight hours, and up to eight hours
\* before millis() wraps
Waits == { 0, 1, SyncRetry - 1, SyncRetry, SyncEvery - 1, SyncEvery,
           Wrap - SyncEvery }
\* getNTP() polls up to 15 times at 150 ms
Tooks == { 1, 70 }

InitNTP ==
    /\ InitAprs
    /\ InitPost
    /\ InitNmea
    /\ InitNtp
    /\ InitSrv
    /\ InitId
    /\ pc = "idle"
    /\ variant = "NTP"
    /\ GeoZero

NextNTP ==
    \E sync \in BOOLEAN, d \in Waits, took \in Tooks, ok \in BOOLEAN :
        NTP_getSeconds(sync, uptime + d, took, ok)

SpecNTP == InitNTP /\ [][NextNTP]_vars

(***************************************************************************)
(* TCPServer (src/server.cpp).  A slot of TCPClient is "free" (no client:  *)
(* the object tests false), "connected", or "stalled" (a client that is no *)
(* longer connected).  pending counts the connections hasClient() reports. *)
(* flush() leaves a connection as it is.                                   *)
(***************************************************************************)
\* connections that may wait to be accepted
MaxPending == 2

Slots == 0 .. MAX_CLIENTS - 1

\* TCPClient[i] and TCPClient[i].connected()
IsConnected(c) == c = "connected"

Usable_FreeOnly(c) == c = "free"

\* (not TCPClient[i]) or (not TCPClient[i].connected())
Usable(c) == ~IsConnected(c)

\* the slot the first loop stops at, MAX_CLIENTS when it runs to the end
FirstUsable(t) ==
    IF \E i \in Slots : Usable(t[i])
    THEN CHOOSE i \in Slots : Usable(t[i]) /\ \A j \in Slots : Usable(t[j]) => i <= j
    ELSE MAX_CLIENTS

\* clients = 0; for (...) if (TCPClient[i] and TCPClient[i].connected()) clients++
CountConnected(t) == Cardinality({ i \in Slots : IsConnected(t[i]) })

\* TCPServer::check(), with alive whether the connection that available()
\* returns is still connected when the slots are counted.  clients-- and
\* clients++ of the first loop are overwritten by the count of the second.
TCPServer_check(alive) ==
    /\ pc = "idle"
    /\ LET i == FirstUsable(TCPClient)
           accepted == pending > 0 /\ i < MAX_CLIENTS
       IN  /\ TCPClient' = IF accepted
                           THEN [TCPClient EXCEPT
                                    ![i] = IF alive THEN "connected" ELSE "stalled"]
                           ELSE TCPClient
           /\ pending' = IF pending > 0 THEN pending - 1 ELSE pending
           /\ clients' = CountConnected(TCPClient')
           /\ checked' = [op |-> "check", ret |-> clients', had |-> pending > 0,
                          slot |-> IF accepted THEN i ELSE -1,
                          was |-> IF accepted THEN TCPClient[i] ELSE "none",
                          rejected |-> pending > 0 /\ i = MAX_CLIENTS,
                          n |-> 1 - checked.n]
    /\ UNCHANGED << geoVars, aprsVars, postVars, pc, idVars, nmeaVars, ntpVars >>

\* TCPServer::sendAll(buf): the connected clients are written to, the
\* stalled ones stopped
TCPServer_sendAll ==
    /\ pc = "idle"
    /\ \E i \in Slots : TCPClient[i] = "stalled"
    /\ TCPClient' = [i \in Slots |->
                        IF TCPClient[i] = "stalled" THEN "free" ELSE TCPClient[i]]
    /\ UNCHANGED << clients, pending, checked >>
    /\ UNCHANGED << geoVars, aprsVars, postVars, pc, idVars, nmeaVars, ntpVars >>

\* a client connects to the port
ClientConnects ==
    /\ pending < MaxPending
    /\ pending' = pending + 1
    /\ UNCHANGED << TCPClient, clients, checked >>
    /\ UNCHANGED << geoVars, aprsVars, postVars, pc, idVars, nmeaVars, ntpVars >>

\* the client of slot i closes its connection
ClientCloses(i) ==
    /\ TCPClient[i] = "connected"
    /\ TCPClient' = [TCPClient EXCEPT ![i] = "stalled"]
    /\ UNCHANGED << clients, pending, checked >>
    /\ UNCHANGED << geoVars, aprsVars, postVars, pc, idVars, nmeaVars, ntpVars >>

InitServer ==
    /\ InitAprs
    /\ InitPost
    /\ InitNmea
    /\ InitNtp
    /\ InitSrv
    /\ InitId
    /\ pc = "idle"
    /\ variant = "TCPServer"
    /\ GeoZero

NextServer ==
    \/ \E alive \in BOOLEAN : TCPServer_check(alive)
    \/ TCPServer_sendAll
    \/ ClientConnects
    \/ \E i \in Slots : ClientCloses(i)

SpecServer == InitServer /\ [][NextServer]_vars

(***************************************************************************)
(* MLS::geoLocation step by step (src/mls.cpp:94-200; the same loops are   *)
(* in src/src/geo-gls.cpp:273-297): the connection, each turn of the loop  *)
(* that skips the response headers, each turn of the loop that scans for   *)
(* the fields, and the bookkeeping once the second loop is left.  What the *)
(* server sends is a sequence of pieces, each what one read consumes: a    *)
(* header line, the blank line that ends the headers, or a key with its    *)
(* value.                                                                  *)
(***************************************************************************)
Piece(k, v) == [key |-> k, val |-> v]

Pieces ==
    { Piece("hdr", 0), Piece("blank", 0), Piece("lat", 45000000),
      Piece("lng", 10000000), Piece("accuracy", 0), Piece("code", 400) }

\* WiFiClient::connected(): established, or bytes still to read
GeoConnected == geoClient.open \/ geoClient.rx # << >>

\* if (geoClient.connect(geoServer, geoPort)) { ... now = millis(); ...
\* A failed connect ends the call at once.
POST_connect(ok, now) ==
    /\ pc = "idle"
    /\ variant = "MLS"
    /\ IF ok
       THEN /\ geoClient' = [open |-> TRUE, rx |-> << >>]
            /\ parsed' = NoFields
            /\ pc' = "headers"
            /\ clock' = now
            /\ last' = [NoCall EXCEPT !.op = "geoLocation", !.had = current.valid]
            /\ UNCHANGED << variant, nets, netCount, prevNets, prevNetCount, current,
                            previous, locator, distance, speed, knots, bearing >>
       ELSE /\ MLS_store(now, [connected |-> FALSE, hasPos |-> FALSE, lat |-> 0,
                               lng |-> 0, hasAcc |-> FALSE, accuracy |-> 0,
                               hasCode |-> FALSE, code |-> 0])
            /\ UNCHANGED << postVars, pc >>
    /\ UNCHANGED << aprsVars, idVars, nmeaVars, ntpVars, srvVars >>

\* one turn of  while (geoClient.connected()) {
\*                int rlen = geoClient.readBytesUntil('\r', buf, bufSize);
\*                if (rlen == 1) break; }
\* with nothing to read the read times out and the loop turns again
POST_skipHeaders ==
    /\ pc = "headers"
    /\ IF ~GeoConnected
       THEN /\ pc' = "fields"
            /\ UNCHANGED geoClient
       ELSE IF geoClient.rx = << >>
       THEN UNCHANGED << geoClient, pc >>
       ELSE /\ geoClient' = [geoClient EXCEPT !.rx = Tail(geoClient.rx)]
            /\ pc' = IF Head(geoClient.rx).key = "blank" THEN "fields" ELSE "headers"
    /\ UNCHANGED << parsed, geoVars, aprsVars, idVars, nmeaVars, ntpVars, srvVars >>

\* the locals after one key and its value
Scanned(f, p) ==
    CASE p.key = "lat"      -> [f EXCEPT !.lat = p.val]
      [] p.key = "lng"      -> [f EXCEPT !.lng = p.val]
      [] p.key = "accuracy" -> [f EXCEPT !.acc = p.val]
      [] p.key = "code"     -> [f EXCEPT !.err = p.val]
      [] OTHER              -> f

\* one turn of  while (geoClient.connected()) {
\*                int rlen = geoClient.readBytesUntil(':', buf, bufSize); ... }
\* and, once the transport is no longer connected, the rest of the call
POST_scanFields ==
    /\ pc = "fields"
    /\ IF ~GeoConnected
       THEN /\ MLS_store(clock, [connected |-> TRUE, hasPos |-> TRUE,
                                 lat |-> parsed.lat, lng |-> parsed.lng,
                                 hasAcc |-> TRUE, accuracy |-> parsed.acc,
                                 hasCode |-> TRUE, code |-> parsed.err])
            /\ pc' = "idle"
            /\ UNCHANGED postVars
       ELSE /\ IF geoClient.rx = << >>
               THEN UNCHANGED postVars
               ELSE /\ geoClient' = [geoClient EXCEPT !.rx = Tail(geoClient.rx)]
                    /\ parsed' = Scanned(parsed, Head(geoClient.rx))
            /\ UNCHANGED << pc, geoVars >>
    /\ UNCHANGED << aprsVars, idVars, nmeaVars, ntpVars, srvVars >>

\* the server or the network closes the connection
GeoPeerClose ==
    /\ pc \in {"headers", "fields"}
    /\ geoClient.open
    /\ geoClient' = [geoClient EXCEPT !.open = FALSE]
    /\ UNCHANGED << parsed, pc, geoVars, aprsVars, idVars, nmeaVars, ntpVars, srvVars >>

\* the server sends more of its response
GeoPeerSend(p) ==
    /\ pc \in {"headers", "fields"}
    /\ geoClient.open
    /\ Len(geoClient.rx) < MaxRx
    /\ geoClient' = [geoClient EXCEPT !.rx = Append(geoClient.rx, p)]
    /\ UNCHANGED << parsed, pc, geoVars, aprsVars, idVars, nmeaVars, ntpVars, srvVars >>

InitPOST ==
    /\ InitAprs
    /\ InitPost
    /\ InitNmea
    /\ InitNtp
    /\ InitSrv
    /\ InitId
    /\ pc = "idle"
    /\ variant = "MLS"
    /\ GeoZero

NextPOST ==
    \/ \E ok \in BOOLEAN, now \in Later : POST_connect(ok, now)
    \/ POST_skipHeaders
    \/ POST_scanFields
    \/ GeoPeerClose
    \/ \E p \in Pieces : GeoPeerSend(p)

SpecPOST == InitPOST /\ [][NextPOST]_vars

\* each loop takes its next turn
FairSpecPOST ==
    SpecPOST /\ WF_vars(POST_skipHeaders) /\ WF_vars(POST_scanFields)

(***************************************************************************)
(* Properties                                                              *)
(***************************************************************************)
\* a step of geoLocation: the only calls that read the clock
IsGeoLocationStep == clock' > clock

SameFixData(f, g) ==
    /\ f.latitude = g.latitude
    /\ f.longitude = g.longitude
    /\ f.uptm = g.uptm

\* C1: when geoLocation accepts the provider's result (0 <= accuracy <=
\* GEO_MAXACC) and current was valid before the call, previous afterwards is
\* exactly the pre-call current (valid) and current holds the returned
\* coordinates, stamped with the call's time and valid.
C1_AcceptShiftsCurrent ==
    [][ (IsGeoLocationStep /\ last'.queried /\ Accepted(last'.acc) /\ current.valid)
        => /\ previous' = current
           /\ previous'.valid
           /\ current' = geo_t(last'.lat, last'.lng, TRUE, clock') ]_vars

\* two accepted results in a row with different coordinates: previous is the
\* older one, current the one just returned
C1_Witness ==
    /\ last.op = "geoLocation" /\ last.queried /\ Accepted(last.acc)
    /\ current.valid /\ previous.valid
    /\ current.latitude = last.lat /\ current.longitude = last.lng
    /\ previous.latitude # current.latitude
    /\ previous.uptm < current.uptm

\* C2: previous only ever changes by losing its valid flag or by becoming a
\* copy of a current that was valid in the state before; it starts invalid.
\* So a valid previous is always a fix that current held while valid, and an
\* invalid current is never copied.
C2_PreviousIsOlderValidCurrent ==
    /\ ~previous.valid
    /\ [][ previous' # previous
           => \/ previous' = [previous EXCEPT !.valid = FALSE]
              \/ (current.valid /\ previous' = current) ]_vars

\* a result accepted while current was invalid: previous still holds the older
\* valid fix, which is not the fix current had just before
C2_Witness ==
    /\ last.op = "geoLocation" /\ last.queried /\ Accepted(last.acc)
    /\ ~last.had
    /\ current.valid /\ previous.valid
    /\ previous.latitude # current.latitude

\* C3: GEO::geoLocation with a fingerprint that networksChanged does not report
\* as changed, and a valid current, does not query the provider, returns 1,
\* sets current.uptm to the present uptime and leaves the rest of current and
\* all of previous as they were.
C3_UnchangedFingerprintSkips ==
    [][ (variant = "GEO" /\ IsGeoLocationStep
         /\ ~networksChanged(nets, netCount) /\ current.valid)
        => /\ ~last'.queried
           /\ last'.ret = 1
           /\ current' = [current EXCEPT !.uptm = clock']
           /\ previous' = previous ]_vars

\* a skipped query for a scan that differs from the baseline by 5 dBm
C3_Witness ==
    /\ variant = "GEO"
    /\ last.op = "geoLocation" /\ ~last.queried /\ last.ret = 1
    /\ current.valid /\ current.uptm = clock
    /\ netCount = 1 /\ prevNetCount = 1
    /\ Abs(nets[1].rssi - prevNets[1].rssi) = 5

\* C4: after a geoLocation call that went to the provider, current.valid is
\* true exactly when the accuracy obtained is in [0, GEO_MAXACC].
C4_ValidIffAccuracyAccepted ==
    (last.op = "geoLocation" /\ last.queried)
        => (current.valid <=> (last.acc >= 0 /\ last.acc <= GEO_MAXACC))

\* C5: a rejected or failed result leaves the coordinates and timestamps of
\* current and previous alone, and previous.valid changes only if previous is
\* more than 3600 s old at the time the call reads.
C5_RejectKeepsPrevious ==
    [][ (IsGeoLocationStep /\ last'.queried /\ ~Accepted(last'.acc))
        => /\ SameFixData(current', current)
           /\ SameFixData(previous', previous)
           /\ (previous'.valid # previous.valid => clock' - previous.uptm > StaleMs)
       ]_vars

\* a rejected result one hour after previous was taken: previous is still valid
C5_Witness ==
    /\ last.op = "geoLocation" /\ last.queried /\ ~Accepted(last.acc)
    /\ ~current.valid /\ previous.valid
    /\ clock - previous.uptm = StaleMs

\* C6: after GEO::getMovement, if previous is more than 3600 s older than the
\* time of the call, the outputs are the stationary result.
C6_StalePreviousNotUsed ==
    (variant = "GEO" /\ last.op = "getMovement" /\ clock - previous.uptm > StaleMs)
        => (distance = 0 /\ speed = 0 /\ knots = 0)

\* C7: a valid fix has -90 <= latitude <= 90 and -180 <= longitude <= 180.
InRange(f) ==
    /\ f.latitude >= -90000000 /\ f.latitude <= 90000000
    /\ f.longitude >= -180000000 /\ f.longitude <= 180000000

C7_ValidFixInRange ==
    /\ current.valid => InRange(current)
    /\ previous.valid => InRange(previous)

\* C8: networksChanged is true exactly when the counts differ, or a BSSID of
\* the scan is not in the baseline, or a BSSID in both differs by more than
\* 10 dBm.
CountDiffers == netCount # prevNetCount

SomeBssidAbsent ==
    \E i \in 1 .. netCount :
        \A j \in 1 .. prevNetCount : prevNets[j].bssid # nets[i].bssid

SomeRssiShifted ==
    \E i \in 1 .. netCount : \E j \in 1 .. prevNetCount :
        /\ prevNets[j].bssid = nets[i].bssid
        /\ Abs(nets[i].rssi - prevNets[j].rssi) > 10

C8_NetworksChangedIff ==
    last.op = "networksChanged"
        => (last.ret = 1 <=> (CountDiffers \/ SomeBssidAbsent \/ SomeRssiShifted))

\* the same two networks, one of them shifted by exactly 10 dBm: not changed
C8_Witness ==
    /\ last.op = "networksChanged" /\ last.ret = 0
    /\ netCount = 2
    /\ \E i, j \in 1 .. 2 :
          /\ nets[i].bssid = prevNets[j].bssid
          /\ Abs(nets[i].rssi - prevNets[j].rssi) = 10

\* C9: after GEO::getMovement with the device stationary (previous invalid or
\* knots = 0), distance = 0, speed = 0 and bearing is the sentinel.
C9_StationaryResult ==
    (variant = "GEO" /\ last.op = "getMovement" /\ (~previous.valid \/ knots = 0))
        => (distance = 0 /\ speed = 0 /\ bearing = -1)

\* C10: after getMovement with current or previous invalid, distance, speed
\* and knots are 0, bearing is -1 and the call returned 0.
C10_InvalidResetsAll ==
    (last.op = "getMovement" /\ (~current.valid \/ ~previous.valid))
        => (distance = 0 /\ speed = 0 /\ knots = 0 /\ bearing = -1 /\ last.ret = 0)

\* C27: whenever the current fix is valid, the cached Maidenhead locator is
\* the locator of the current fix's coordinates.
C27_LocatorMatchesCurrent ==
    current.valid => locator = getLocator(current.latitude, current.longitude)

C27_Witness ==
    /\ last.op = "geoLocation"
    /\ last.queried
    /\ last.had
    /\ current.valid
    /\ previous.valid
    /\ locator = getLocator(current.latitude, current.longitude)
    /\ locator # getLocator(previous.latitude, previous.longitude)

\* the value of an upper-case hexadecimal digit, -1 for any other character
HexVal(c) ==
    IF \E i \in 1 .. 16 : HexDigits[i] = c
    THEN (CHOOSE i \in 1 .. 16 : HexDigits[i] = c) - 1
    ELSE -1

\* the XOR of the codes of b[i .. j]: bit k is the parity of the number
\* of codes with bit k set
XorRange(b, i, j) ==
    LET Parity(k) == Cardinality({ x \in i .. j : (Ord(b[x]) \div (2 ^ k)) % 2 = 1 }) % 2
    IN  Parity(0) + 2 * Parity(1) + 4 * Parity(2) + 8 * Parity(3) + 16 * Parity(4)
            + 32 * Parity(5) + 64 * Parity(6) + 128 * Parity(7)

NmeaOps == TimeOps \cup {"getVTG"}

\* C24: every sentence starts with "$" and ends with "*HH" CR LF, where HH
\* is the two-digit upper-case hexadecimal XOR of the characters strictly
\* between the "$" and the only "*".
C24_SentenceEndsWithChecksum ==
    sentence.op \in NmeaOps =>
        LET b == sentence.buf
            n == Len(b)
        IN  /\ n = sentence.ret
            /\ n >= 6
            /\ b[1] = "$"
            /\ { i \in 1 .. n : b[i] = "*" } = { n - 4 }
            /\ HexVal(b[n - 3]) >= 0
            /\ HexVal(b[n - 2]) >= 0
            /\ HexVal(b[n - 3]) * 16 + HexVal(b[n - 2]) = XorRange(b, 2, n - 5)
            /\ b[n - 1] = "CR"
            /\ b[n] = "LF"

C24_Witness ==
    /\ sentence.op = "getZDA"
    /\ sentence.args = << 1709210096 >>
    /\ sentence.buf = << "$", "G", "P", "Z", "D", "A", ",", "1", "2", "3", "4", "5", "6", ".", "0", ",", "2", "9", ",", "0", "2", ",", "2", "0", "2", "4", ",", ",", "*", "5", "C" >> \o << "CR", "LF" >>

\* C25: each sentence equals the one a newly constructed encoder gives for
\* the same arguments, whatever calls came before.
C25_MemoizationUnobservable ==
    sentence.op \in NmeaOps =>
        sentence.buf = Encode(NmeaNew, sentence.op, sentence.len, sentence.args).buf

\* a call that found its coordinates cached, after the encoder had worked
\* on other arguments
C25_Witness ==
    /\ sentence.op = "getGLL"
    /\ sentence.hit
    /\ sentence.args[2] = 45515625
    /\ sentence.buf = Encode(NmeaNew, sentence.op, sentence.len, sentence.args).buf

\* days from 2000-01-01 to the first day of month ll of year 2000 + yy, in
\* the calendar whose leap years are those with yy % 4 = 0
DaysBefore(yy, ll) ==
    LET MonthLen(m) == IF m = 2 THEN (IF yy % 4 = 0 THEN 29 ELSE 28)
                       ELSE IF m \in {4, 6, 9, 11} THEN 30 ELSE 31
        RECURSIVE Sum(_)
        Sum(m) == IF m = 0 THEN 0 ELSE MonthLen(m) + Sum(m - 1)
    IN  365 * yy + ((yy + 3) \div 4) + Sum(ll - 1)

\* the fields d are the calendar date and time of t seconds after 2000-01-01
IsCalendar(d, t) ==
    /\ d.yy >= 0
    /\ d.ll \in 1 .. 12
    /\ d.dd \in 1 .. (IF d.ll = 2 THEN (IF d.yy % 4 = 0 THEN 29 ELSE 28)
                       ELSE IF d.ll \in {4, 6, 9, 11} THEN 30 ELSE 31)
    /\ d.hh \in 0 .. 23
    /\ d.mm \in 0 .. 59
    /\ d.ss \in 0 .. 59
    /\ t \div 86400 = DaysBefore(d.yy, d.ll) + d.dd - 1
    /\ t % 86400 = d.hh * 3600 + d.mm * 60 + d.ss

\* C26: after getTime, and in the result of getDateTime, the fields are the
\* date and time of the timestamp in the calendar whose leap years are the
\* years with (year - 2000) % 4 = 0, every field in its range.
C26_TimeDecomposition ==
    /\ sentence.op \in TimeOps => IsCalendar(nmea, sentence.args[1] - 946684800)
    /\ sentence.op = "getDateTime" => IsCalendar(sentence.dt, sentence.args[1] - 946684800)

C26_Witness ==
    /\ sentence.op = "getRMC"
    /\ sentence.args[1] = 1709210096
    /\ nmea.yy = 24
    /\ nmea.ll = 2
    /\ nmea.dd = 29
    /\ nmea.hh = 12
    /\ nmea.mm = 34
    /\ nmea.ss = 56

\* the calls that send a report packet
Reports == Builders \cup {"sendStatus", "sendTelemetry", "sendTelemetrySetup"}

\* C21: a report packet is written to the transport only when the session
\* is connected and authenticate() has succeeded since the last connect.
C21_ReportsOnlyWhenAuthenticated ==
    (call.op \in Reports /\ call.wrote >= 1) =>
        (call.link \in {"up", "fresh"} /\ call.auth)

\* the eleven characters of the wind placeholder
WindPlaceholder == << ".", ".", ".", "/", ".", ".", ".", "g", ".", ".", "." >>

\* C31: in every weather packet sent after a setLocation that was made with
\* a symbol set, the timestamp is followed by the latitude and the longitude
\* of the last setLocation (a table character between them), then exactly
\* one symbol character, '_', then the wind placeholder, whatever was sent
\* before.
C31_WeatherPositionSymbol ==
    (/\ call.op = "sendWeather"
     /\ located # << >>
     /\ \A i \in 1 .. Len(aprsLocation) : aprsLocation[i] # "NUL") =>
        LET pkt == call.pkts[1]
            h   == Len(aprsCallSign) + Len(aprsPath) + 8
            pos == coordinates(located[1], located[2], "/", "_")
        IN  /\ Len(pkt) >= h + 30
            /\ SubSeq(pkt, h + 1, h + 8) = SubSeq(pos, 1, 8)
            /\ SubSeq(pkt, h + 10, h + 18) = SubSeq(pos, 10, 18)
            /\ pkt[h + 19] = "_"
            /\ SubSeq(pkt, h + 20, h + 30) = WindPlaceholder

\* C32: a getSeconds call attempts a sync only with sync = true and millis()
\* at or past nextSync; an attempt comes no sooner than 60 s after the end
\* of a failed attempt and no sooner than 8 hours after the end of a
\* successful one; getSeconds(false) attempts nothing and leaves valid,
\* delta and nextSync as they were.
C32_SyncOnlyWhenDue ==
    ntpCall.op = "getSeconds" =>
        /\ ntpCall.attempted =>
              (ntpCall.sync /\ millis(ntpCall.at) >= ntpCall.pre.nextSync)
        /\ (ntpCall.attempted /\ ntpCall.prev.made) =>
              ntpCall.at - ntpCall.prev.end >=
                  (IF ntpCall.prev.ok THEN SyncEvery ELSE SyncRetry)
        /\ ~ntpCall.sync => (~ntpCall.attempted /\ ntp = ntpCall.pre)

\* C33: after every check(), clients and the value returned are the number
\* of slots that hold a connected client, within 0 .. MAX_CLIENTS; a
\* waiting connection goes to the first slot that is free or stalled, the
\* other slots unchanged; with every slot connected it is rejected and no
\* slot changes; with nothing waiting no slot changes.
C33_CheckCountsAndPlaces ==
    [][ checked'.n # checked.n =>
          LET usable == { i \in Slots : TCPClient[i] # "connected" }
          IN  /\ clients' = Cardinality({ i \in Slots : TCPClient'[i] = "connected" })
              /\ checked'.ret = clients'
              /\ clients' \in 0 .. MAX_CLIENTS
              /\ (pending > 0 /\ usable # {}) =>
                    \E i \in usable :
                        /\ \A j \in usable : i <= j
                        /\ checked'.slot = i
                        /\ TCPClient'[i] \in {"connected", "stalled"}
                        /\ \A j \in Slots \ {i} : TCPClient'[j] = TCPClient[j]
                        /\ ~checked'.rejected
                        /\ pending' = pending - 1
              /\ (pending > 0 /\ usable = {}) =>
                    /\ checked'.rejected
                    /\ TCPClient' = TCPClient
                    /\ pending' = pending - 1
                    /\ clients' = MAX_CLIENTS
              /\ pending = 0 => (TCPClient' = TCPClient /\ ~checked'.rejected) ]_vars

\* a waiting connection has taken the place of a stalled client in the
\* third slot, the two before it connected and a stalled one after it kept
C33_Witness ==
    /\ checked.op = "check"
    /\ checked.slot = 2
    /\ checked.was = "stalled"
    /\ TCPClient = [i \in Slots |-> IF i = 3 THEN "stalled" ELSE "connected"]
    /\ clients = 3
    /\ checked.ret = 3

\* C34: whenever current and previous are both valid, current's timestamp
\* is later than previous', so the time difference getMovement divides by is
\* greater than zero (the uptime read at a geoLocation call is later than
\* the one read at the call before).
C34_CurrentLaterThanPrevious ==
    (current.valid /\ previous.valid) => current.uptm - previous.uptm > 0

\* getMovement has divided a distance by the time between two fixes
C34_Witness ==
    /\ last.op = "getMovement"
    /\ current.valid /\ previous.valid
    /\ current.uptm - previous.uptm = 2 * TickMs
    /\ distance > 0
    /\ speed > 0

\* C35: the baseline is the scan of the last geoLocation call that queried
\* the provider: a call that queries stores its scan as the baseline, a call
\* that skips the query leaves the baseline as it was, and nothing else
\* changes it; so a call whose scan has an entry more than 10 dBm away from
\* the baseline entry of the same BSSID queries the provider, however close
\* the scan is to the one before it.
C35_BaselineIsLastQueried ==
    [][ /\ (variant = "GEO" /\ IsGeoLocationStep) =>
              /\ last'.queried => (prevNetCount' = netCount /\ prevNets' = nets)
              /\ ~last'.queried => (prevNetCount' = prevNetCount /\ prevNets' = prevNets)
              /\ (\E i \in 1 .. netCount, j \in 1 .. prevNetCount :
                      /\ nets[i].bssid = prevNets[j].bssid
                      /\ Abs(nets[i].rssi - prevNets[j].rssi) > RssiThreshold)
                    => last'.queried
        /\ ~(variant = "GEO" /\ IsGeoLocationStep) =>
              (prevNetCount' = prevNetCount /\ prevNets' = prevNets) ]_vars

\* a query skipped for a scan 10 dBm below the baseline: the baseline is
\* still the stronger scan, so that a further 5 dBm will be 15 dBm away
C35_Witness ==
    /\ variant = "GEO"
    /\ last.op = "geoLocation" /\ ~last.queried
    /\ netCount = 1 /\ prevNetCount = 1
    /\ nets[1].bssid = prevNets[1].bssid
    /\ prevNets[1].rssi = -55
    /\ nets[1].rssi = -65

\* C36: a geoLocation call skips the provider only if current is valid when
\* it begins; a call that begins with current invalid queries the provider,
\* also when its scan is the baseline that the failed call before it has
\* stored, and leaves current invalid again unless the result is accepted.
C36_SkipOnlyWhileValid ==
    [][ IsGeoLocationStep =>
          /\ ~last'.queried => current.valid
          /\ ~current.valid =>
                /\ last'.queried
                /\ current'.valid <=> Accepted(last'.acc) ]_vars

\* the second failed query in a row, for a scan equal to the baseline
C36_Witness ==
    /\ variant = "GEO"
    /\ last.op = "geoLocation" /\ last.queried /\ ~last.had
    /\ ~current.valid
    /\ netCount = 1 /\ prevNetCount = 1
    /\ nets = prevNets
    /\ clock >= 2 * TickMs

\* C37: every sendTelemetry call advances the sequence number, sent or not;
\* the definitions are attempted in the calls whose number is 0 and in no
\* other; and when the transport is disconnected or the error flag is set
\* as the number wraps to 0, no packet of that call is delivered.
C37_BurstTiedToWrap ==
    call.op = "sendTelemetry" =>
        /\ call.seq = aprsTlmSeq
        /\ Len(call.pkts) = (IF call.seq = 0 THEN 5 ELSE 1)
        /\ (call.seq = 0 /\ (~call.conn \/ call.had)) => call.wrote = 0

\* C37, with the transport disconnected as the only case: the call
\* advances the sequence number, hands the definitions to send only when
\* the number is 0, and when it is 0 on a disconnected transport nothing is
\* written and the call returns false.
C37_LostWhenDisconnected ==
    call.op = "sendTelemetry" =>
        /\ call.seq = aprsTlmSeq
        /\ Len(call.pkts) = (IF call.seq = 0 THEN 5 ELSE 1)
        /\ (call.seq = 0 /\ ~call.conn) => (call.wrote = 0 /\ ~call.ret)

C37_WitnessDisconnected ==
    /\ call.op = "sendTelemetry" /\ call.seq = 0 /\ ~call.conn
    /\ Len(call.pkts) = 5 /\ call.wrote = 0

\* C38: the length a getter returns is less than len, so that the sentence
\* and its terminator lie within the len bytes of buf.
C38_SentenceWithinLen ==
    sentence.op \in NmeaOps => sentence.ret < sentence.len

\* the sentence '$PVERS,name,version,date*HH' CR LF, HH the checksum of the
\* characters between '$' and '*'
WelcomeSentence(name, vers) ==
    LET body == WelcomeBody(name, vers)
    IN  body \o << "*" >> \o Hex2(XorRange(body, 2, Len(body))) \o eol

\* C39: a getWelcome call made on an empty welcome, or repeated with the
\* name and version of the call before it when welcome holds that call's
\* one sentence, leaves welcome holding exactly the one sentence of its
\* name and version and returns the length of that sentence.
C39_WelcomeIdempotent ==
    [][ (/\ sentence'.op = "getWelcome"
         /\ \/ welcome = << >>
            \/ /\ sentence.op = "getWelcome"
               /\ sentence.args = sentence'.args
               /\ welcome = WelcomeSentence(sentence.args[1], sentence.args[2])) =>
          /\ welcome' = WelcomeSentence(sentence'.args[1], sentence'.args[2])
          /\ sentence'.ret = Len(welcome') ]_vars

\* the first call on an empty welcome gives the one sentence
C39_FirstCallOneSentence ==
    [][ (sentence'.op = "getWelcome" /\ welcome = << >>) =>
          /\ welcome' = WelcomeSentence(sentence'.args[1], sentence'.args[2])
          /\ sentence'.ret = Len(welcome') ]_vars

\* C22: sendStatus with an empty message hands nothing to send, writes
\* nothing and leaves the error flag as it was, connected or not; with a
\* non-empty message it hands exactly one packet to send, the callsign, the
\* path, ">", the message and CRLF.
C22_EmptyStatusSendsNothing ==
    call.op = "sendStatus" =>
        IF call.args[1] = << >>
        THEN /\ call.pkts = << >>
             /\ call.wrote = 0
             /\ ~call.short
             /\ error = call.had
        ELSE call.pkts = << aprsCallSign \o aprsPath \o << ">" >> \o call.args[1]
                               \o << "CR", "LF" >> >>

C22_Witness ==
    /\ call.op = "sendStatus"
    /\ call.args[1] = << >>
    /\ call.link = "up"
    /\ ~call.had
    /\ call.pkts = << >>

\* a text cut or padded with spaces to nine characters
Nine(d) == [i \in 1 .. 9 |-> IF i <= Len(d) THEN d[i] ELSE " "]

\* C28: in the packet of sendMessage the destination field is the
\* destination, or the own callsign for a NULL destination, cut or padded
\* to exactly 9 characters, followed by ":", and the text between that ":"
\* and the CRLF is at most 45 characters.
C28_MessageFieldWidths ==
    call.op = "sendMessage" =>
        LET pkt  == call.pkts[1]
            h    == Len(aprsCallSign) + Len(aprsPath) + 1
            dest == IF call.args[1] = NULL THEN aprsCallSign ELSE call.args[1]
        IN  /\ Len(call.pkts) = 1
            /\ SubSeq(pkt, 1, h) = aprsCallSign \o aprsPath \o << ":" >>
            /\ SubSeq(pkt, h + 1, h + 9) = Nine(dest)
            /\ pkt[h + 10] = ":"
            /\ SubSeq(pkt, Len(pkt) - 1, Len(pkt)) = << "CR", "LF" >>
            /\ Len(pkt) - (h + 10) - 2 <= 45

\* the header of a telemetry definition packet
DefinitionHeader ==
    aprsCallSign \o aprsPath \o << ":" >> \o Nine(aprsCallSign) \o << ":" >>

\* C29: the sendTelemetry call that wraps the sequence to 0 hands five
\* packets to send, in order: PARM, EQNS, UNIT and BITS, each the same
\* header, one payload and CRLF, then the data packet with sequence 000;
\* on a working transport all five are written.
C29_DefinitionsBeforeData ==
    (call.op = "sendTelemetry" /\ call.seq = 0) =>
        /\ Len(call.pkts) = 5
        /\ call.pkts[1] = DefinitionHeader \o aprsTlmPARM \o << "CR", "LF" >>
        /\ call.pkts[2] = DefinitionHeader \o aprsTlmEQNS \o << "CR", "LF" >>
        /\ call.pkts[3] = DefinitionHeader \o aprsTlmUNIT \o << "CR", "LF" >>
        /\ call.pkts[4] = DefinitionHeader \o aprsTlmBITS \o NODENAME \o << "/" >>
                              \o VERSION \o << "CR", "LF" >>
        /\ SubSeq(call.pkts[5], 1, Len(aprsCallSign) + Len(aprsPath) + 6)
              = aprsCallSign \o aprsPath \o << "T", "#", "0", "0", "0", "," >>
        /\ (call.link \in {"up", "fresh"} /\ ~call.short) => call.wrote = 5

C29_Witness ==
    /\ call.op = "sendTelemetry"
    /\ call.seq = 0
    /\ call.wrote = 5
    /\ Len(call.pkts) = 5
    /\ call.ret

\* the eight binary digits of a byte
Bit8(bits) ==
    [i \in 1 .. 8 |-> IF (bits \div (2 ^ (8 - i))) % 2 = 1 THEN "1" ELSE "0"]

\* C30: the telemetry data packet is the callsign, the path, "T#", the
\* three-digit sequence number, five comma-separated channel fields, a
\* comma and the flags as exactly eight binary digits, then CRLF.
C30_EightBinaryDigits ==
    call.op = "sendTelemetry" =>
        LET pkt == call.pkts[Len(call.pkts)]
            h   == Len(aprsCallSign) + Len(aprsPath)
            n   == Len(pkt)
        IN  /\ SubSeq(pkt, h + 1, h + 6) = << "T", "#" >> \o PadZero(call.seq, 3) \o << "," >>
            /\ Cardinality({ i \in h + 1 .. n : pkt[i] = "," }) = 6
            /\ n >= h + 10
            /\ pkt[n - 10] = ","
            /\ SubSeq(pkt, n - 9, n - 2) = Bit8(call.args[2])
            /\ SubSeq(pkt, n - 1, n) = << "CR", "LF" >>

\* the callsign without its SSID, in upper case
UpperRoot(cs) ==
    LET n == IF \E i \in 1 .. Len(cs) : cs[i] = "-"
             THEN (CHOOSE i \in 1 .. Len(cs) :
                      cs[i] = "-" /\ \A j \in 1 .. i - 1 : cs[j] # "-") - 1
             ELSE Len(cs)
    IN  [i \in 1 .. n |-> toupper(cs[i])]

\* the reference hash over the first k byte pairs of r
RECURSIVE RefHash(_, _)
RefHash(r, k) ==
    IF k = 0 THEN 29666
    ELSE Xor(RefHash(r, k - 1),
             Ord(r[2 * k - 1]) * 256 + (IF 2 * k <= Len(r) THEN Ord(r[2 * k]) ELSE 0))

\* C23: doPassCode equals the reference hash of the upper-cased callsign
\* without its SSID, masked to 15 bits; the result is in 0 .. 32767, is the
\* same for every callsign with the same root in any letter case, and is
\* 13023 for N0CALL and N0CALL-9.
C23_PassCodeIsReferenceHash ==
    call.op = "setCallSign" =>
        LET cs == call.args[1]
            r  == UpperRoot(cs)
        IN  /\ call.code = RefHash(r, (Len(r) + 1) \div 2) % 32768
            /\ call.code \in 0 .. 32767
            /\ \A o \in PassCallSigns :
                  UpperRoot(o) = r => doPassCode(o) = call.code
            /\ r = << "N", "0", "C", "A", "L", "L" >> => call.code = 13023

C23_Witness ==
    /\ call.op = "setCallSign"
    /\ call.args[1] = << "n", "0", "C", "a", "l", "l", "-", "1", "5" >>
    /\ call.code = 13023
    /\ aprsPassCode = << "1", "3", "0", "2", "3" >>

\* C11: getBearing returns the undefined sentinel, not an angle in 0..359,
\* whenever the two points are identical, and otherwise returns an integer
\* in 0..359.
C11_BearingSentinelOnSamePoint ==
    last.op = "getBearing" =>
        IF previous.latitude = current.latitude /\ previous.longitude = current.longitude
        THEN bearing \notin 0 .. 359
        ELSE bearing \in 0 .. 359

\* C12: the telemetry definitions (sendTelemetrySetup) go out exactly once
\* in each sendTelemetry call whose sequence number has wrapped to 0, the
\* first call after start-up included, and never in a call whose sequence
\* number is not 0; on a connected transport with full writes that is four
\* definition packets and the data packet, or the data packet alone.
C12_SetupOncePerWrap ==
    call.op = "sendTelemetry" =>
        /\ call.seq = aprsTlmSeq
        /\ call.setup = (IF call.seq = 0 THEN 1 ELSE 0)
        /\ (call.link \in {"up", "fresh"} /\ ~call.short)
              => call.wrote = 4 * call.setup + 1

C12_Witness ==
    /\ call.op = "sendTelemetry"
    /\ call.seq = 0
    /\ call.setup = 1
    /\ call.wrote = 5
    /\ call.ret

\* C13: after every sendTelemetry call aprsTlmSeq is in 0..999 and is the
\* number the data packet carries; only sendTelemetry changes it, every
\* call changes it, and each change is +1 modulo 1000, so that 999 is
\* followed by 000.
C13_SeqIncrementsAndWraps ==
    /\ [](aprsTlmSeq \in 0 .. 999)
    /\ [](call.op = "sendTelemetry" => call.seq = aprsTlmSeq)
    /\ [][ /\ aprsTlmSeq' # aprsTlmSeq =>
                /\ call'.op = "sendTelemetry"
                /\ aprsTlmSeq' = (aprsTlmSeq + 1) % 1000
           /\ (call'.op = "sendTelemetry" /\ call' # call) =>
                aprsTlmSeq' # aprsTlmSeq ]_vars

C13_Witness ==
    /\ call.op = "sendTelemetry"
    /\ call.seq = 999
    /\ aprsTlmSeq = 999

\* C14: the session error flag is sticky: once set, no operation of the
\* class (connect, stop, authenticate, send, the packet builders) clears it.
C14_ErrorSticky == [][error => error']_vars

C14_Witness ==
    /\ error
    /\ call.had
    /\ call.op = "send"
    /\ call.link = "fresh"
    /\ call.wrote = 1

\* C15: send returns true only if the transport was connected at the
\* call, and false whenever the transport was disconnected, the write was
\* short or the error flag was already set; in the last case the packet is
\* still written to the connected transport.
C15_SendResult ==
    call.op = "send" =>
        /\ call.ret => call.conn
        /\ (~call.conn \/ call.short \/ call.had) => ~call.ret
        /\ (call.had /\ call.conn /\ ~call.short) => call.wrote = 1

C15_Witness ==
    /\ call.op = "send"
    /\ call.had
    /\ call.conn
    /\ call.wrote = 1
    /\ ~call.ret

\* C16: no error is terminal: once the session has been stopped and
\* connected again, a packet written in full to that connection gets true
\* from send and from the packet builders, whatever failed before.
C16_RecoversAfterReconnect ==
    ( /\ call.op \in {"send", "sendStatus", "sendTelemetry"} \cup Builders
      /\ call.link = "fresh"
      /\ call.wrote >= 1
      /\ ~call.short )
    => call.ret

\* C17: authenticate on a transport that is not connected returns false,
\* writes nothing, reads nothing, and leaves the error flag, the telemetry
\* sequence number and the transport as they were.
C17_AuthenticateDisconnectedNoOp ==
    [][ (pc = "idle" /\ ~Connected(aprsClient) /\ call'.op = "authenticate")
        => /\ ~call'.ret
           /\ call'.wrote = 0
           /\ ~call'.short
           /\ ~call'.read
           /\ pc' = "idle"
           /\ error' = error
           /\ aprsTlmSeq' = aprsTlmSeq
           /\ aprsClient' = aprsClient ]_vars

C17_Witness ==
    /\ call.op = "authenticate"
    /\ ~call.conn
    /\ ~call.ret
    /\ ~error
    /\ pc = "idle"

\* C18: authenticate returns true exactly when "verified" occurs in the
\* server's reply before the reply's first carriage return.
C18_VerifiedOnFirstLineOnly ==
    (call.op = "authenticate" /\ pc = "idle")
    => (call.ret <=> call.first = "verified")

\* C19: authenticate always returns: a call that is waiting for the reply
\* gets out of its loop.
C19_AuthenticateTerminates == (pc = "authenticate") ~> (pc = "idle")

\* the fields of a response have all been read: a position with its
\* accuracy, or an error code
ResponseComplete ==
    \/ parsed.lat # 0 /\ parsed.lng # 0 /\ parsed.acc # -1
    \/ parsed.err # -1

\* C20: the structured POST geoLocation call always returns: when the
\* server has accepted the connection and then neither sends a complete
\* response nor closes the connection, the loop that skips the headers and
\* the loop that scans the fields still come to an end and the call returns.
C20_PostGeoLocationTerminates ==
    (pc \in {"headers", "fields"}) ~> (pc = "idle" \/ ResponseComplete)

====
